---------------------------- MODULE Spec2Model ----------------------------
(***************************************************************************)
(* A model of kourge/failable: the frozen Failable values, the `when`      *)
(* matcher, the generic Dispatcher listener registry, the observing        *)
(* matcher Failable.when built from the two, the mutable six-state         *)
(* Loadable and the mutable Failable, the guards, the conversions and      *)
(* Try, the frozen values as objects of a heap, and a Dispatcher whose     *)
(* listeners call back into it.                                            *)
(*                                                                         *)
(* Strings that the code inspects character by character (state names,     *)
(* which handlersOf lower-cases) are sequences of UTF-16 code units.       *)
(* Opaque values (payloads, callback identities) are TLA+ strings.         *)
(***************************************************************************)
EXTENDS Integers, Sequences, FiniteSets, TLC

VARIABLES validStates, allHandlers, calls, last, pc, loadable, outstanding,
          mfailable, promises, jobs, subject, accepts, heap, iter

vars == <<validStates, allHandlers, calls, last, pc, loadable, outstanding,
          mfailable, promises, jobs, subject, accepts, heap, iter>>

(***************************************************************************)
(* Bounds of the model.                                                    *)
(***************************************************************************)
\* Listeners registered in the whole registry at any one time.
MaxListeners == 3
\* Promises given to accept.
MaxPromises == 2
\* Values a client constructs with success, failure, reloading and retrying.
MaxValues == 2

(***************************************************************************)
(* State names, as sequences of code units.                                *)
(***************************************************************************)
\* 'pending'
S_pending == <<112, 101, 110, 100, 105, 110, 103>>
\* 'failure'
S_failure == <<102, 97, 105, 108, 117, 114, 101>>
\* 'success'
S_success == <<115, 117, 99, 99, 101, 115, 115>>
\* 'Success'
S_Success == <<83, 117, 99, 99, 101, 115, 115>>
\* 'a', 'b', 'c', 'A'
S_a == <<97>>
S_b == <<98>>
S_c == <<99>>
S_A == <<65>>
\* 'foobar'
S_foobar == <<102, 111, 111, 98, 97, 114>>
\* 'constructor'
S_constructor == <<99, 111, 110, 115, 116, 114, 117, 99, 116, 111, 114>>
\* '__proto__'
S_proto == <<95, 95, 112, 114, 111, 116, 111, 95, 95>>
\* the absent name
NoName == <<>>

\* const states: State[] = ['pending', 'failure', 'success']
states == <<S_pending, S_failure, S_success>>
\* const validStates: ABC[] = ['a', 'b', 'c']
ABC == <<S_a, S_b, S_c>>

\* The registries that are constructed: Failable's own and the test suite's.
StateLists == {states, ABC}

Range(s) == {s[i] : i \in DOMAIN s}

\* The names passed to the registry's methods: the valid ones, case
\* variants of them, an unknown name, and names of properties every object
\* inherits.
NameInputs(vs) == Range(vs) \cup (IF vs = states THEN {S_Success} ELSE {S_A}) \cup {S_foobar, S_constructor, S_proto}

(***************************************************************************)
(* JavaScript values.                                                      *)
(***************************************************************************)
Undefined == "undefined"
\* success payloads and failure errors
Data == {"x1", "x2"}
Errors == {"e1"}

\* String.prototype.toLowerCase on the code units of ASCII names
ToLowerCase(s) == [i \in DOMAIN s |-> IF s[i] \in 65..90 THEN s[i] + 32 ELSE s[i]]

(***************************************************************************)
(* Failable values (common/index.ts).                                      *)
(***************************************************************************)
success(data) == [error |-> "false", data |-> data]
failure(data) == [error |-> "true", data |-> data]
pending == [error |-> "null", data |-> Undefined]

\* a variant that tests !f.error instead of f.error === false
isSuccess_Falsy(f) == f.error = "false" \/ f.error = "null"
isSuccess(f) == f.error = "false"
isFailure(f) == f.error = "true"
isPending(f) == f.error = "null"

Failables == {success(d) : d \in Data} \cup {failure(e) : e \in Errors} \cup {pending}
NoFailable == [error |-> "", data |-> Undefined]

(***************************************************************************)
(* Outcomes of a call: the registry and the call trace it leaves, and      *)
(* either the returned value or the thrown error.                          *)
(***************************************************************************)
Return(ah, cs, value) == [ah |-> ah, calls |-> cs, thrown |-> FALSE, error |-> "", result |-> value]
Throw(ah, cs, error) == [ah |-> ah, calls |-> cs, thrown |-> TRUE, error |-> error, result |-> [fn |-> "", args |-> <<>>]]

\* what a callback fn returns for the arguments args (an uninterpreted value)
RetVal(fn, args) == [fn |-> fn, args |-> args]
\* the value of a call that returns nothing
Void == [fn |-> Undefined, args |-> <<>>]

(***************************************************************************)
(* Callbacks.  A listener is one of the functions registered in the        *)
(* registry; a caller handler is one of the functions of a WhenOptions.    *)
(* What a callback does is recorded in the call trace: which function ran  *)
(* and with which arguments.                                               *)
(***************************************************************************)
\* h1 and h2 return normally; hx raises an Error when invoked
Listeners == {"h1", "h2", "hx"}
Raises(h) == h = "hx"
Callers == {"k1", "k2"}

Call(fn, args) == [fn |-> fn, args |-> args]

\* handler(data) for a registered listener
Invoke(h, data, ah, cs) ==
  IF Raises(h) THEN Throw(ah, Append(cs, Call(h, <<data>>)), "Error")
  ELSE Return(ah, Append(cs, Call(h, <<data>>)), Void)

(***************************************************************************)
(* Dispatcher (dispatcher/index.ts).  allHandlers is a plain object: its   *)
(* own keys are the names given to the constructor, and a lookup of any    *)
(* other key falls through to Object.prototype.                            *)
(***************************************************************************)
\* private allHandlers: {[key: string]: Handler<any>[]} = {} and the
\* constructor's loop handlers[state] = []
Construct(vs) == [k \in Range(vs) |-> <<>>]

\* this.allHandlers[key]: a reference to the array stored under an own key,
\* an inherited property (Object.prototype.constructor is the function
\* Object, __proto__ is Object.prototype itself), or undefined
Get(ah, key) ==
  IF key \in DOMAIN ah THEN [type |-> "array", key |-> key]
  ELSE IF key = S_constructor THEN [type |-> "function", key |-> key]
  ELSE IF key = S_proto THEN [type |-> "object", key |-> key]
  ELSE [type |-> Undefined, key |-> NoName]

handlersOf(ah, cs, state) ==
  LET handlers == Get(ah, ToLowerCase(state))
  IN IF handlers.type = Undefined
     THEN Throw(ah, cs, "TypeError")
     ELSE Return(ah, cs, handlers)

\* handlers.length as the loop bound of removeListener: the array's length,
\* Object.length = 1, and undefined (i < undefined is false) for
\* Object.prototype
LoopBound(ah, ref) ==
  IF ref.type = "array" THEN Len(ah[ref.key])
  ELSE IF ref.type = "function" THEN 1
  ELSE 0

\* handlers[i] (0-based in the code, 1-based here)
ElementAt(ah, ref, i) ==
  IF ref.type = "array" /\ i \in DOMAIN ah[ref.key] THEN ah[ref.key][i] ELSE Undefined

\* a variant that omits the count: handlers.splice(i) removes the element
\* and everything after it
SpliceOne_Truncating(list, i) == SubSeq(list, 1, i - 1)
\* handlers.splice(i, 1) on an array (1-based i)
SpliceOne(list, i) == [j \in 1..(Len(list) - 1) |-> IF j < i THEN list[j] ELSE list[j + 1]]

\* for (const handler of handlers) handler(data): the array iterator reads
\* the live array, one index at a time
\* Faulty variant of the dispatch loop: an error raised by a listener is
\* swallowed and the remaining listeners still run.
RECURSIVE DispatchLoop_Isolating(_, _, _, _, _)
DispatchLoop_Isolating(ah, cs, key, i, data) ==
  IF i > Len(ah[key]) THEN Return(ah, cs, Void)
  ELSE LET r == Invoke(ah[key][i], data, ah, cs)
       IN DispatchLoop_Isolating(r.ah, r.calls, key, i + 1, data)

RECURSIVE DispatchLoop(_, _, _, _, _)
DispatchLoop(ah, cs, key, i, data) ==
  IF i > Len(ah[key]) THEN Return(ah, cs, Void)
  ELSE LET r == Invoke(ah[key][i], data, ah, cs)
       IN IF r.thrown THEN r ELSE DispatchLoop(r.ah, r.calls, key, i + 1, data)

\* Faulty variant of dispatch: the listeners run last-registered first.
Reverse(list) == [i \in DOMAIN list |-> list[Len(list) + 1 - i]]
dispatch_Backwards(ah, cs, state, data) ==
  LET h == handlersOf(ah, cs, state)
  IN IF h.thrown THEN h
     ELSE IF h.result.type # "array" THEN Throw(ah, cs, "TypeError")
     ELSE LET r == DispatchLoop([ah EXCEPT ![h.result.key] = Reverse(@)], cs, h.result.key, 1, data)
          IN [r EXCEPT !.ah = ah]

dispatch(ah, cs, state, data) ==
  LET h == handlersOf(ah, cs, state)
  IN IF h.thrown THEN h
     ELSE IF h.result.type # "array" THEN Throw(ah, cs, "TypeError")
     ELSE DispatchLoop(ah, cs, h.result.key, 1, data)

\* Faulty variant of addListener: a name without a list gets one.
addListener_Creating(ah, cs, state, f) ==
  LET h == handlersOf(ah, cs, state)
  IN IF h.thrown THEN Return([k \in DOMAIN ah \cup {state} |-> IF k \in DOMAIN ah THEN ah[k] ELSE <<f>>], cs, Void)
     ELSE IF h.result.type # "array" THEN Throw(ah, cs, "TypeError")
     ELSE Return([ah EXCEPT ![h.result.key] = Append(@, f)], cs, Void)

\* Faulty variant of addListener: a callback that is already registered is
\* not registered again.
addListener_Once(ah, cs, state, f) ==
  LET h == handlersOf(ah, cs, state)
  IN IF h.thrown THEN h
     ELSE IF h.result.type # "array" THEN Throw(ah, cs, "TypeError")
     ELSE IF f \in Range(ah[h.result.key]) THEN Return(ah, cs, Void)
     ELSE Return([ah EXCEPT ![h.result.key] = Append(@, f)], cs, Void)

addListener(ah, cs, state, f) ==
  LET h == handlersOf(ah, cs, state)
  IN IF h.thrown THEN h
     ELSE IF h.result.type # "array" THEN Throw(ah, cs, "TypeError")
     ELSE Return([ah EXCEPT ![h.result.key] = Append(@, f)], cs, Void)

\* for (let i = 0; i < handlers.length; i++)
\*   if (handlers[i] === f) handlers.splice(i, 1);
RECURSIVE RemoveLoop(_, _, _, _)
RemoveLoop(ah, ref, i, f) ==
  IF i > LoopBound(ah, ref) THEN ah
  ELSE IF ElementAt(ah, ref, i) = f
       THEN RemoveLoop([ah EXCEPT ![ref.key] = SpliceOne(@, i)], ref, i + 1, f)
       ELSE RemoveLoop(ah, ref, i + 1, f)

\* Faulty variant of removeListener: a callback that is not registered is
\* reported as an error.
removeListener_Strict(ah, cs, state, f) ==
  LET h == handlersOf(ah, cs, state)
  IN IF h.thrown THEN h
     ELSE IF f = Undefined
          THEN IF h.result.type # "array" THEN Throw(ah, cs, "TypeError")
               ELSE Return([ah EXCEPT ![h.result.key] = <<>>], cs, Void)
          ELSE IF RemoveLoop(ah, h.result, 1, f) = ah THEN Throw(ah, cs, "TypeError")
          ELSE Return(RemoveLoop(ah, h.result, 1, f), cs, Void)

\* Faulty variant of removeListener: without a callback it empties the
\* lists of all states.
removeListener_Everything(ah, cs, state, f) ==
  LET h == handlersOf(ah, cs, state)
  IN IF h.thrown THEN h
     ELSE IF f = Undefined
          THEN IF h.result.type # "array" THEN Throw(ah, cs, "TypeError")
               ELSE Return([k \in DOMAIN ah |-> <<>>], cs, Void)
          ELSE Return(RemoveLoop(ah, h.result, 1, f), cs, Void)

\* f = Undefined is the call without a callback
removeListener(ah, cs, state, f) ==
  LET h == handlersOf(ah, cs, state)
  IN IF h.thrown THEN h
     ELSE IF f = Undefined
          THEN IF h.result.type # "array" THEN Throw(ah, cs, "TypeError")
               ELSE Return([ah EXCEPT ![h.result.key] = <<>>], cs, Void)
          ELSE Return(RemoveLoop(ah, h.result, 1, f), cs, Void)

\* for (const state of this.validStates) { handlersOf(state).splice(...) }
RECURSIVE ClearLoop(_, _, _, _)
ClearLoop(ah, cs, vs, i) ==
  IF i > Len(vs) THEN Return(ah, cs, Void)
  ELSE LET h == handlersOf(ah, cs, vs[i])
       IN IF h.thrown THEN h
          ELSE IF h.result.type # "array" THEN Throw(ah, cs, "TypeError")
          ELSE ClearLoop([ah EXCEPT ![h.result.key] = <<>>], cs, vs, i + 1)

\* Faulty variant of clear: the loop starts at the second state.
clear_SkippingFirst(ah, cs, vs) == ClearLoop(ah, cs, vs, 2)

clear(ah, cs, vs) == ClearLoop(ah, cs, vs, 1)

(***************************************************************************)
(* The matcher (`when`) and the observing matcher (Failable.when).         *)
(* A handler of a WhenOptions is a caller's function, one of the closures  *)
(* of dispatchOptions, or absent.                                          *)
(***************************************************************************)
CallerFn(id) == [kind |-> "caller", id |-> id, state |-> NoName]
DispatchFn(state) == [kind |-> "dispatch", id |-> "", state |-> state]
NoHandler == [kind |-> Undefined, id |-> "", state |-> NoName]

\* WhenOptions: success and failure are required, pending is optional
WhenOptions == [success : {CallerFn(k) : k \in Callers}, failure : {CallerFn(k) : k \in Callers}, pending : {CallerFn(k) : k \in Callers} \cup {NoHandler}]
NoOptions == [success |-> NoHandler, failure |-> NoHandler, pending |-> NoHandler]

\* Faulty variant of dispatchOptions: failures are reported to the success
\* listeners.
dispatchOptions_Crossed == [success |-> DispatchFn(S_success), pending |-> DispatchFn(S_pending), failure |-> DispatchFn(S_success)]

\* success: data => dispatch('success', data), pending: () =>
\* dispatch('pending', undefined), failure: data => dispatch('failure', data)
dispatchOptions == [success |-> DispatchFn(S_success), pending |-> DispatchFn(S_pending), failure |-> DispatchFn(S_failure)]

\* handler(...args): a caller's function records the call and returns its
\* own value; a dispatchOptions closure forwards to dispatch and returns
\* what dispatch returns (nothing)
CallHandler(h, args, ah, cs) ==
  IF h.kind = "dispatch"
  THEN dispatch(ah, cs, h.state, IF args = <<>> THEN Undefined ELSE args[1])
  ELSE Return(ah, Append(cs, Call(h.id, args)), RetVal(h.id, args))

\* Faulty variant of `when`: an unhandled pending value falls through and
\* the call returns undefined.
when_SilentPending(f, options, ah, cs) ==
  IF isSuccess(f) THEN CallHandler(options.success, <<f.data>>, ah, cs)
  ELSE IF isFailure(f) THEN CallHandler(options.failure, <<f.data>>, ah, cs)
  ELSE IF isPending(f) /\ options.pending # NoHandler THEN CallHandler(options.pending, <<>>, ah, cs)
  ELSE Return(ah, cs, Void)

\* Faulty variant of `when`: the failure branch forgets the payload.
when_FailureNoPayload(f, options, ah, cs) ==
  IF isSuccess(f) THEN CallHandler(options.success, <<f.data>>, ah, cs)
  ELSE IF isFailure(f) THEN CallHandler(options.failure, <<>>, ah, cs)
  ELSE IF isPending(f) /\ options.pending # NoHandler THEN CallHandler(options.pending, <<>>, ah, cs)
  ELSE Throw(ah, cs, "TypeError")

when(f, options, ah, cs) ==
  LET onSuccess == options.success
      onPending == options.pending
      onFailure == options.failure
  IN IF isSuccess(f) THEN CallHandler(onSuccess, <<f.data>>, ah, cs)
     ELSE IF isFailure(f) THEN CallHandler(onFailure, <<f.data>>, ah, cs)
     ELSE IF isPending(f) /\ onPending # NoHandler THEN CallHandler(onPending, <<>>, ah, cs)
     ELSE Throw(ah, cs, "TypeError")

\* Faulty variant of Failable.when: the caller's handlers run first and the
\* registry is notified afterwards.
Failable_when_CallerFirst(f, options, ah, cs) ==
  LET matched == when(f, options, ah, cs)
  IN IF matched.thrown THEN matched
     ELSE LET observed == when(f, dispatchOptions, matched.ah, matched.calls)
          IN IF observed.thrown THEN observed
             ELSE Return(observed.ah, observed.calls, matched.result)

\* Faulty variant of Failable.when: the missing pending handler is detected
\* before the registry is notified.
Failable_when_GuardFirst(f, options, ah, cs) ==
  IF isPending(f) /\ options.pending = NoHandler THEN Throw(ah, cs, "TypeError")
  ELSE LET observed == when(f, dispatchOptions, ah, cs)
       IN IF observed.thrown THEN observed
          ELSE when(f, options, observed.ah, observed.calls)

\* Faulty variant of Failable.when: an error raised while the registry is
\* notified is caught, and the caller's handlers run all the same.
Failable_when_Shielded(f, options, ah, cs) ==
  LET observed == when(f, dispatchOptions, ah, cs)
  IN when(f, options, observed.ah, observed.calls)

\* _when(f, dispatchOptions); return _when(f, options);
Failable_when(f, options, ah, cs) ==
  LET observed == when(f, dispatchOptions, ah, cs)
  IN IF observed.thrown THEN observed
     ELSE when(f, options, observed.ah, observed.calls)

(***************************************************************************)
(* Loadable (mut/loadable.ts): a mutable holder of a state and a payload.  *)
(* The lifecycle methods didBecomeSuccess, didBecomeFailure and            *)
(* didBecomeLoading do nothing unless a subclass overrides them; here      *)
(* they record in the call trace that they ran, with their arguments and   *)
(* with the holder as they found it.                                       *)
(***************************************************************************)
\* @observable data = undefined; @observable state = State.empty
Loadable_new == [state |-> "empty", data |-> Undefined]

\* Loadable.State
LoadableStates == {"empty", "pending", "success", "reloading", "failure", "retrying"}

\* JavaScript booleans as values passed to callbacks
Bool(b) == IF b THEN "true" ELSE "false"
\* `this`, which the action methods return
This == [fn |-> "this", args |-> <<>>]

\* how a method of the holder ends: the holder and the call trace it
\* leaves, and the value it returns
LReturn(l, cs, value) == [l |-> l, calls |-> cs, thrown |-> FALSE, error |-> "", result |-> value]

HookCall(name, args, l) == [fn |-> name, args |-> args, seen |-> l]
\* this.didBecome...(args)
Hook(name, args, l, cs) == Append(cs, HookCall(name, args, l))

Loadable_isSuccess(l) == l.state = "success" \/ l.state = "reloading"
Loadable_isFailure(l) == l.state = "failure" \/ l.state = "retrying"
\* a variant that counts a Loadable as pending only once a load has begun
Loadable_isPending_Started(l) == l.state = "pending"
Loadable_isPending(l) == l.state = "empty" \/ l.state = "pending"
Loadable_isLoading(l) == l.state = "reloading" \/ l.state = "retrying" \/ l.state = "pending"

\* a variant that notifies before it assigns: the hook finds the holder as
\* it was before the call
Loadable_success_HookFirst(l, cs, data) ==
  LET l1 == [l EXCEPT !.state = "success"]
      l2 == [l1 EXCEPT !.data = data]
  IN LReturn(l2, Hook("didBecomeSuccess", <<data>>, l, cs), This)

Loadable_success(l, cs, data) ==
  LET l1 == [l EXCEPT !.state = "success"]
      l2 == [l1 EXCEPT !.data = data]
  IN LReturn(l2, Hook("didBecomeSuccess", <<data>>, l2, cs), This)

\* a variant that records the failure but keeps the payload it had
Loadable_failure_KeepingPayload(l, cs, error) ==
  LET l1 == [l EXCEPT !.state = "failure"]
  IN LReturn(l1, Hook("didBecomeFailure", <<error>>, l1, cs), This)

Loadable_failure(l, cs, error) ==
  LET l1 == [l EXCEPT !.state = "failure"]
      l2 == [l1 EXCEPT !.data = error]
  IN LReturn(l2, Hook("didBecomeFailure", <<error>>, l2, cs), This)

\* a variant that forgets the payload when a load begins
Loadable_loading_DroppingPayload(l, cs) ==
  IF l.state \in {"empty", "success", "failure"}
  THEN LET l1 == [state |-> CASE l.state = "empty" -> "pending"
                             [] l.state = "success" -> "reloading"
                             [] l.state = "failure" -> "retrying",
                  data |-> Undefined]
       IN LReturn(l1, Hook("didBecomeLoading", <<>>, l1, cs), This)
  ELSE LReturn(l, cs, This)

\* a variant that notifies on every call, also when nothing changes
Loadable_loading_AlwaysNotifying(l, cs) ==
  LET l1 == [l EXCEPT !.state = CASE l.state = "empty" -> "pending"
                                  [] l.state = "success" -> "reloading"
                                  [] l.state = "failure" -> "retrying"
                                  [] OTHER -> l.state]
  IN LReturn(l1, Hook("didBecomeLoading", <<>>, l1, cs), This)

\* a variant in which a second call cancels the load begun by the first
Loadable_loading_Toggling(l, cs) ==
  LET l1 == [l EXCEPT !.state = CASE l.state = "empty" -> "pending"
                                  [] l.state = "success" -> "reloading"
                                  [] l.state = "failure" -> "retrying"
                                  [] l.state = "pending" -> "empty"
                                  [] l.state = "reloading" -> "success"
                                  [] l.state = "retrying" -> "failure"]
  IN IF l.state \in {"empty", "success", "failure"}
     THEN LReturn(l1, Hook("didBecomeLoading", <<>>, l1, cs), This)
     ELSE LReturn(l1, cs, This)

Loadable_loading(l, cs) ==
  IF l.state \in {"empty", "success", "failure"}
  THEN LET l1 == [l EXCEPT !.state = CASE l.state = "empty" -> "pending"
                                       [] l.state = "success" -> "reloading"
                                       [] l.state = "failure" -> "retrying"]
       IN LReturn(l1, Hook("didBecomeLoading", <<>>, l1, cs), This)
  ELSE LReturn(l, cs, This)

\* a variant that does what the pending() of a three-state Future does
Loadable_pending_Clearing(l, cs) ==
  LET l1 == [state |-> "pending", data |-> Undefined]
  IN LReturn(l1, Hook("didBecomeLoading", <<>>, l1, cs), This)

\* return this.loading()
Loadable_pending(l, cs) == Loadable_loading(l, cs)

\* the functions a client passes as the callbacks of a MatchOptions
MatchCallers == {"m1", "m2", "m3"}
\* MatchOptions: all three callbacks are required
MatchOptions == [success : MatchCallers, failure : MatchCallers, pending : MatchCallers]

\* callback(...args) for a callback of a MatchOptions
CallBack(id, args, l, cs) == LReturn(l, Append(cs, Call(id, args)), RetVal(id, args))

\* a variant that tells every callback that no load is in flight
Loadable_match_NeverLoading(l, cs, options) ==
  CASE l.state \in {"success", "reloading"} ->
         CallBack(options.success, <<l.data, Bool(FALSE)>>, l, cs)
    [] l.state \in {"failure", "retrying"} ->
         CallBack(options.failure, <<l.data, Bool(FALSE)>>, l, cs)
    [] l.state \in {"empty", "pending"} ->
         CallBack(options.pending, <<Bool(FALSE)>>, l, cs)

Loadable_match(l, cs, options) ==
  CASE l.state \in {"success", "reloading"} ->
         CallBack(options.success, <<l.data, Bool(Loadable_isLoading(l))>>, l, cs)
    [] l.state \in {"failure", "retrying"} ->
         CallBack(options.failure, <<l.data, Bool(Loadable_isLoading(l))>>, l, cs)
    [] l.state \in {"empty", "pending"} ->
         CallBack(options.pending, <<Bool(Loadable_isLoading(l))>>, l, cs)

\* Lazy<T> = T | (() => T): a fallback is a value or a function producing one
Fallbacks == [kind : {"value"}, value : {"d1"}] \cup [kind : {"function"}, value : {"t1"}]
\* a value that is returned as it is
Value(v) == [fn |-> "value", args |-> <<v>>]

\* Lazy.force: v instanceof Function ? v() : v
Lazy_force(v, l, cs) ==
  IF v.kind = "function" THEN CallBack(v.value, <<>>, l, cs)
  ELSE LReturn(l, cs, Value(v.value))

\* a variant that evaluates the fallback before it looks at the state
Loadable_successOr_Eager(l, cs, defaultValue) ==
  LET forced == Lazy_force(defaultValue, l, cs)
  IN CASE l.state \in {"success", "reloading"} -> LReturn(l, forced.calls, Value(l.data))
       [] l.state \in {"failure", "retrying"} -> forced
       [] l.state \in {"empty", "pending"} -> forced

\* this.match({success: v => v, failure: () => Lazy.force(defaultValue),
\* pending: () => Lazy.force(defaultValue)})
Loadable_successOr(l, cs, defaultValue) ==
  CASE l.state \in {"success", "reloading"} -> LReturn(l, cs, Value(l.data))
    [] l.state \in {"failure", "retrying"} -> Lazy_force(defaultValue, l, cs)
    [] l.state \in {"empty", "pending"} -> Lazy_force(defaultValue, l, cs)

Loadable_failureOr(l, cs, defaultValue) ==
  CASE l.state \in {"success", "reloading"} -> Lazy_force(defaultValue, l, cs)
    [] l.state \in {"failure", "retrying"} -> LReturn(l, cs, Value(l.data))
    [] l.state \in {"empty", "pending"} -> Lazy_force(defaultValue, l, cs)

\* a variant that waits for the promise before it shows a load
Loadable_accept_NotLoading(l, cs) == LReturn(l, cs, This)

\* this.loading(); Promise.resolve(promise).then(this.success,
\* this.failure); return this.  The reactions run later, when the promise
\* has settled.
Loadable_accept(l, cs) ==
  LET r == Loadable_loading(l, cs)
  IN LReturn(r.l, r.calls, This)

\* the promises that may be given to accept
Promises == 1..MaxPromises
\* a promise that has not settled yet.  inFlight is a record of the past
\* kept for the properties: the other promises that had been given to
\* accept and had not settled when this one, given to accept too, settled.
Unsettled == [kind |-> "unsettled", value |-> Undefined, inFlight |-> {}]
\* how a promise may settle: fulfilled with a value or rejected with an error
Settlements == [kind : {"fulfilled"}, value : Data] \cup [kind : {"rejected"}, value : Errors]

\* a variant in which a settlement counts only while a load is shown
Loadable_settled_OnlyWhileLoading(l, cs, how) ==
  IF ~Loadable_isLoading(l) THEN LReturn(l, cs, This)
  ELSE IF how.kind = "fulfilled" THEN Loadable_success(l, cs, how.value)
  ELSE Loadable_failure(l, cs, how.value)

\* the reaction that then(this.success, this.failure) registered
Loadable_settled(l, cs, how) ==
  IF how.kind = "fulfilled" THEN Loadable_success(l, cs, how.value)
  ELSE Loadable_failure(l, cs, how.value)

(***************************************************************************)
(* The mutable Failable (mut/failable.ts): a holder with the three states  *)
(* of a Future.  Its methods end as those of a Loadable do, and its        *)
(* lifecycle methods are recorded in the same way.                         *)
(***************************************************************************)
\* @observable data = undefined; @observable state = State.pending
MutFailable_new == [state |-> "pending", data |-> Undefined]

\* Future.State
FutureStates == {"pending", "success", "failure"}

MutFailable_isSuccess(m) == m.state = "success"
MutFailable_isFailure(m) == m.state = "failure"
MutFailable_isPending(m) == m.state = "pending"

\* a variant in which a holder that has a value keeps it
MutFailable_success_KeepingFirst(m, cs, data) ==
  LET m1 == [m EXCEPT !.state = "success"]
      m2 == IF m.data \in Data THEN m1 ELSE [m1 EXCEPT !.data = data]
  IN LReturn(m2, Hook("didBecomeSuccess", <<data>>, m2, cs), This)

MutFailable_success(m, cs, data) ==
  LET m1 == [m EXCEPT !.state = "success"]
      m2 == [m1 EXCEPT !.data = data]
  IN LReturn(m2, Hook("didBecomeSuccess", <<data>>, m2, cs), This)

MutFailable_failure(m, cs, error) ==
  LET m1 == [m EXCEPT !.state = "failure"]
      m2 == [m1 EXCEPT !.data = error]
  IN LReturn(m2, Hook("didBecomeFailure", <<error>>, m2, cs), This)

MutFailable_pending(m, cs) ==
  LET m1 == [m EXCEPT !.state = "pending"]
      m2 == [m1 EXCEPT !.data = Undefined]
  IN LReturn(m2, Hook("didBecomePending", <<>>, m2, cs), This)

MutFailable_match(m, cs, options) ==
  CASE m.state = "success" -> CallBack(options.success, <<m.data>>, m, cs)
    [] m.state = "failure" -> CallBack(options.failure, <<m.data>>, m, cs)
    [] m.state = "pending" -> CallBack(options.pending, <<>>, m, cs)

MutFailable_successOr(m, cs, defaultValue) ==
  CASE m.state = "success" -> LReturn(m, cs, Value(m.data))
    [] m.state = "failure" -> Lazy_force(defaultValue, m, cs)
    [] m.state = "pending" -> Lazy_force(defaultValue, m, cs)

MutFailable_failureOr(m, cs, defaultValue) ==
  CASE m.state = "success" -> Lazy_force(defaultValue, m, cs)
    [] m.state = "failure" -> LReturn(m, cs, Value(m.data))
    [] m.state = "pending" -> Lazy_force(defaultValue, m, cs)

\* this.pending(); Promise.resolve(promise).then(this.success,
\* this.failure); return this
MutFailable_accept(m, cs) ==
  LET r == MutFailable_pending(m, cs)
  IN LReturn(r.l, r.calls, This)

\* the reaction that then(this.success, this.failure) registered
MutFailable_settled(m, cs, how) ==
  IF how.kind = "fulfilled" THEN MutFailable_success(m, cs, how.value)
  ELSE MutFailable_failure(m, cs, how.value)

(***************************************************************************)
(* Values of any kind, as the guards and the Try constructor may be given  *)
(* them: a value has a type; an object has or lacks the property `error`,  *)
(* whose value is one of a few; a function given to toFailable or Try      *)
(* returns a value or throws one when it is called.                        *)
(***************************************************************************)
Null == "null"
\* x.error of an object: no such property, or the value of the property
ErrorProps == {"absent", Undefined, "false", "true", Null, "0"}
Types == {"object", "function", Null, Undefined, "number", "string"}
Obj(error, data) == [type |-> "object", error |-> error, data |-> data, id |-> "", does |-> ""]
\* a frozen Failable taken as a value of any kind
AsValue(f) == Obj(f.error, f.data)
Primitive(t) == [type |-> t, error |-> "absent", data |-> Undefined, id |-> "", does |-> ""]
\* what success may be given: a value, undefined or null
SuccessPayloads == Data \cup {Undefined, Null}
Thunks ==
  {[type |-> "function", error |-> "absent", data |-> v, id |-> "g", does |-> "return"] : v \in SuccessPayloads}
  \cup {[type |-> "function", error |-> "absent", data |-> e, id |-> "g", does |-> "throw"] : e \in Errors}
Objects == {Obj(e, d) : e \in ErrorProps, d \in {"x1", Undefined}} \cup {AsValue(failure(e)) : e \in Errors}
JsValues == Objects \cup {Primitive(t) : t \in Types \ {"object", "function"}} \cup Thunks

\* `'error' in x` throws a TypeError unless x is an object (a function is one)
IsObject(x) == x.type \in {"object", "function"}

\* isFailable (common/index.ts)
isFailable(x, ah, cs) ==
  IF ~IsObject(x) THEN Throw(ah, cs, "TypeError")
  ELSE Return(ah, cs, Value(Bool(x.error # "absent" /\ (x.error = "false" \/ x.error = "true" \/ x.error = Null))))

\* Failable.is (failable/index.ts)
Failable_is(x, ah, cs) ==
  IF ~IsObject(x) THEN Throw(ah, cs, "TypeError")
  ELSE Return(ah, cs, Value(Bool(x.error # "absent" /\ (x.error = "false" \/ x.error = "true" \/ x.error = Null))))

\* f(): the call is recorded; the function returns or throws its value
CallThunk(f, ah, cs) ==
  IF f.does = "throw" THEN Throw(ah, Append(cs, Call(f.id, <<>>)), f.data)
  ELSE Return(ah, Append(cs, Call(f.id, <<>>)), Value(f.data))

\* a variant that wraps what was thrown in an error of its own
toFailable_Rewrapping(f, ah, cs) ==
  LET r == CallThunk(f, ah, cs)
  IN IF r.thrown THEN Return(ah, r.calls, Value(AsValue(failure("wrapped"))))
     ELSE Return(ah, r.calls, Value(AsValue(success(r.result.args[1]))))

\* toFailable (common/index.ts): try { return success(f()) } catch (e)
\* { return failure(e) }
toFailable(f, ah, cs) ==
  LET r == CallThunk(f, ah, cs)
  IN IF r.thrown THEN Return(ah, r.calls, Value(AsValue(failure(r.error))))
     ELSE Return(ah, r.calls, Value(AsValue(success(r.result.args[1]))))

\* Result.from, also exported as toResult
Result_from(f, ah, cs) ==
  LET r == CallThunk(f, ah, cs)
  IN IF r.thrown THEN Return(ah, r.calls, Value(AsValue(failure(r.error))))
     ELSE Return(ah, r.calls, Value(AsValue(success(r.result.args[1]))))

toResult(f, ah, cs) == Result_from(f, ah, cs)

(***************************************************************************)
(* Try (lib/try/index.js): a wrapper of a Failable whose constructor       *)
(* notifies the listeners registered with Try.on.  Its registry is an      *)
(* object literal with the three state names as keys.                      *)
(***************************************************************************)
\* var allHandlers = { pending: [], failure: [], success: [] }
Try_allHandlers == [k \in {S_pending, S_failure, S_success} |-> <<>>]

Try_handlersOf(ah, cs, state) ==
  LET handlers == Get(ah, ToLowerCase(state))
  IN IF handlers.type = Undefined
     THEN Throw(ah, cs, "TypeError")
     ELSE Return(ah, cs, handlers)

\* for (_i = 0, _a = _handlersOf(state); _i < _a.length; _i++) handler(data)
RECURSIVE Try_DispatchLoop(_, _, _, _, _)
Try_DispatchLoop(ah, cs, ref, i, data) ==
  IF i > LoopBound(ah, ref) THEN Return(ah, cs, Void)
  ELSE LET handler == ElementAt(ah, ref, i)
       IN IF handler = Undefined THEN Throw(ah, cs, "TypeError")
          ELSE LET r == Invoke(handler, data, ah, cs)
               IN IF r.thrown THEN r ELSE Try_DispatchLoop(r.ah, r.calls, ref, i + 1, data)

Try_dispatch(ah, cs, state, data) ==
  LET h == Try_handlersOf(ah, cs, state)
  IN IF h.thrown THEN h ELSE Try_DispatchLoop(ah, cs, h.result, 1, data)

\* Try.on(state, f): handlers.push(f)
Try_on(ah, cs, state, f) ==
  LET h == Try_handlersOf(ah, cs, state)
  IN IF h.thrown THEN h
     ELSE IF h.result.type # "array" THEN Throw(ah, cs, "TypeError")
     ELSE Return([ah EXCEPT ![h.result.key] = Append(@, f)], cs, Void)

\* a callback of the options of Try.prototype.on
Try_CallHandler(h, args, ah, cs) ==
  IF h.kind = "dispatch"
  THEN Try_dispatch(ah, cs, h.state, IF args = <<>> THEN Undefined ELSE args[1])
  ELSE Return(ah, Append(cs, Call(h.id, args)), RetVal(h.id, args))

\* Try.prototype.on({success, pending, failure})
Try_prototype_on(f, options, ah, cs) ==
  LET onSuccess == options.success
      onPending == options.pending
      onFailure == options.failure
  IN IF isSuccess(f) THEN Try_CallHandler(onSuccess, <<f.data>>, ah, cs)
     ELSE IF isFailure(f) THEN Try_CallHandler(onFailure, <<f.data>>, ah, cs)
     ELSE IF isPending(f) /\ onPending # NoHandler THEN Try_CallHandler(onPending, <<>>, ah, cs)
     ELSE Throw(ah, cs, "TypeError")

\* a variant that tells the listeners of failure of a success and the
\* listeners of success of a failure
Try_dispatchOptions_Crossed ==
  [failure |-> DispatchFn(S_success), success |-> DispatchFn(S_failure), pending |-> DispatchFn(S_pending)]

\* the options the constructor passes to this.on
Try_dispatchOptions ==
  [failure |-> DispatchFn(S_failure), success |-> DispatchFn(S_success), pending |-> DispatchFn(S_pending)]

\* new Try(f); the value of the call is the Failable the Try wraps
Try_new(f, ah, cs) ==
  LET conv == IF f.type = "function" THEN toFailable(f, ah, cs) ELSE Return(ah, cs, Value(f))
      failable == conv.result.args[1]
      guard == isFailable(failable, ah, conv.calls)
  IN IF guard.thrown THEN guard
     ELSE IF guard.result = Value("false") THEN Throw(ah, conv.calls, "TypeError")
     ELSE LET r == Try_prototype_on(failable, Try_dispatchOptions, ah, conv.calls)
          IN IF r.thrown THEN r ELSE Return(r.ah, r.calls, Value(failable))

(***************************************************************************)
(* Objects.  A Failable is an object: the client holds a reference to it,  *)
(* and the heap holds the object itself, with its properties and whether   *)
(* Object.freeze was applied to it.  The constant `pending` is created     *)
(* when the module is loaded and is the first object of the heap.          *)
(***************************************************************************)
\* a variant of Object.freeze that returns the object as it was given
freeze_Leaving(o) == [value |-> o, frozen |-> FALSE]
\* const {freeze} = Object
freeze(o) == [value |-> o, frozen |-> TRUE]

\* the heap once the module is loaded: export const pending = freeze(...)
Module == <<freeze(pending)>>
\* the reference to the constant pending
PendingRef == 1

\* o[prop] = v in the client's code: a frozen object keeps its properties;
\* the assignment throws in strict code and is ignored in sloppy code
Assign(cell, prop, v, strict) ==
  IF cell.frozen
  THEN [cell |-> cell, thrown |-> strict, error |-> IF strict THEN "TypeError" ELSE ""]
  ELSE [cell |-> [cell EXCEPT !.value = [@ EXCEPT ![prop] = v]], thrown |-> FALSE, error |-> ""]

(***************************************************************************)
(* The frozen five-tag Loadable values (loadable/index.ts): the three      *)
(* Failable values, and reloading and retrying, which carry the property   *)
(* `succeeded`.                                                            *)
(***************************************************************************)
reloading(data) == [error |-> "null", data |-> data, succeeded |-> "true"]
retrying(data) == [error |-> "null", data |-> data, succeeded |-> "false"]

\* 'succeeded' in f
HasSucceeded(f) == "succeeded" \in DOMAIN f

isReloading(f) == f.error = "null" /\ HasSucceeded(f) /\ f.succeeded = "true"
isRetrying(f) == f.error = "null" /\ HasSucceeded(f) /\ f.succeeded = "false"

(***************************************************************************)
(* Listeners that call back into the registry.  The listeners above do     *)
(* nothing to the registry that invokes them; these are closures over the  *)
(* test suite's Dispatcher d = new Dispatcher(['a', 'b', 'c']):             *)
(*   hrem = () => d.removeListener('a', hrem)    removes itself            *)
(*   hadd = () => d.addListener('a', hadd)       registers itself again    *)
(*   hreg = () => d.addListener('a', h1)         registers another one     *)
(* A dispatch that invokes them is followed one invocation at a time: the  *)
(* iterator of `for (const handler of handlers)` holds the array and an    *)
(* index, and looks at the array as it is when each round begins.          *)
(***************************************************************************)
Reentrant == {"hrem", "hadd", "hreg"}
Handlers == {"h1", "hx"} \cup Reentrant

\* handler(data) for any of the listeners
Run(h, data, ah, cs) ==
  CASE h = "hrem" -> removeListener(ah, Append(cs, Call(h, <<data>>)), S_a, "hrem")
    [] h = "hadd" -> addListener(ah, Append(cs, Call(h, <<data>>)), S_a, "hadd")
    [] h = "hreg" -> addListener(ah, Append(cs, Call(h, <<data>>)), S_a, "h1")
    [] OTHER -> Invoke(h, data, ah, cs)

\* the iterator of a dispatch: the key of the array, the index of the next
\* element (1-based), the data to pass, and the registry as it was when
\* the dispatch began
Iterator(key, data, ah) == [key |-> key, i |-> 1, data |-> data, began |-> ah]
\* no dispatch is under way
NoIter == [key |-> NoName, i |-> 0, data |-> Undefined, began |-> <<>>]

\* the iterator's next(): done once the index is past the end of the array
\* as it is now
Done(ah, it) == it.i > Len(ah[it.key])

\* one round of the loop: handler = handlers[i]; handler(data)
Step(ah, cs, it) == Run(ah[it.key][it.i], it.data, ah, cs)

\* the invocations after which a dispatch is no longer followed: one more
\* than a dispatch can make that still ends (each listener of a full
\* registry registering one more listener)
MaxInvocations == 2 * MaxListeners + 1

(***************************************************************************)
(* The state machine.  A client calls one operation at a time: a call runs  *)
(* to completion (everything is synchronous) and returns or throws, and    *)
(* the client then goes on to its next call.  `last` describes the call    *)
(* that has just ended: the operation, its arguments, the registry before  *)
(* it, and how it ended; `calls` is the trace of the callbacks that call   *)
(* invoked, in order.                                                      *)
(***************************************************************************)
Op(op, state, f, data, value, options, r) ==
  [op |-> op, state |-> state, f |-> f, data |-> data, value |-> value,
   options |-> options, before |-> allHandlers,
   thrown |-> r.thrown, error |-> r.error, result |-> r.result]

\* the listeners held by the whole registry
RECURSIVE Total(_, _)
Total(ah, keys) ==
  IF keys = {} THEN 0
  ELSE LET k == CHOOSE x \in keys : TRUE IN Len(ah[k]) + Total(ah, keys \ {k})

\* no call has ended that the client has not gone on from
NoCall ==
  [op |-> "", state |-> NoName, f |-> Undefined, data |-> Undefined,
   value |-> NoFailable, options |-> NoOptions, before |-> <<>>,
   thrown |-> FALSE, error |-> "", result |-> Void]

Finish(op, state, f, data, value, options, r) ==
  /\ pc' = "returned"
  /\ allHandlers' = r.ah
  /\ calls' = r.calls
  /\ last' = Op(op, state, f, data, value, options, r)
  /\ UNCHANGED <<validStates, loadable, outstanding, mfailable, promises, jobs, subject, accepts, heap, iter>>

Init ==
  /\ validStates \in StateLists
  /\ allHandlers = Construct(validStates)
  /\ calls = <<>>
  /\ last = NoCall
  /\ pc = "ready"
  /\ loadable = Loadable_new
  /\ outstanding = {}
  /\ mfailable = MutFailable_new
  /\ promises = [p \in Promises |-> Unsettled]
  /\ jobs = <<>>
  /\ accepts = 0
  /\ subject = "Dispatcher"
  /\ heap = Module
  /\ iter = NoIter

HandlersOf ==
  /\ pc = "ready"
  /\ \E n \in NameInputs(validStates) :
       Finish("handlersOf", n, Undefined, Undefined, NoFailable, NoOptions,
              handlersOf(allHandlers, <<>>, n))

AddListener ==
  /\ pc = "ready"
  /\ Total(allHandlers, DOMAIN allHandlers) < MaxListeners
  /\ \E n \in NameInputs(validStates), h \in Listeners :
       Finish("addListener", n, h, Undefined, NoFailable, NoOptions,
              addListener(allHandlers, <<>>, n, h))

RemoveListener ==
  /\ pc = "ready"
  /\ \E n \in NameInputs(validStates), h \in Listeners \cup {Undefined} :
       Finish("removeListener", n, h, Undefined, NoFailable, NoOptions,
              removeListener(allHandlers, <<>>, n, h))

Dispatch ==
  /\ pc = "ready"
  /\ \E n \in NameInputs(validStates), x \in Data :
       Finish("dispatch", n, Undefined, x, NoFailable, NoOptions,
              dispatch(allHandlers, <<>>, n, x))

Clear ==
  /\ pc = "ready"
  /\ Finish("clear", NoName, Undefined, Undefined, NoFailable, NoOptions,
            clear(allHandlers, <<>>, validStates))

When ==
  /\ pc = "ready"
  /\ \E f \in Failables, options \in WhenOptions :
       Finish("when", NoName, Undefined, Undefined, f, options,
              when(f, options, allHandlers, <<>>))

\* Failable.when uses the registry Failable constructs over `states`
FailableWhen ==
  /\ pc = "ready"
  /\ validStates = states
  /\ \E f \in Failables, options \in WhenOptions :
       Finish("Failable.when", NoName, Undefined, Undefined, f, options,
              Failable_when(f, options, allHandlers, <<>>))

\* the client goes on from the call that ended
Resume ==
  /\ pc = "returned"
  /\ pc' = "ready"
  /\ last' = NoCall
  /\ calls' = <<>>
  /\ UNCHANGED <<validStates, allHandlers, loadable, outstanding, mfailable, promises, jobs, subject, accepts, heap, iter>>

Next ==
  \/ HandlersOf
  \/ AddListener
  \/ RemoveListener
  \/ Dispatch
  \/ Clear
  \/ When
  \/ FailableWhen
  \/ Resume

Spec == Init /\ [][Next]_vars

\* A registry over names that are not all lower case: new
\* Dispatcher(['A', 'b']).
MixedCase == <<S_A, S_b>>

InitAny ==
  /\ validStates \in StateLists \cup {MixedCase}
  /\ allHandlers = Construct(validStates)
  /\ calls = <<>>
  /\ last = NoCall
  /\ pc = "ready"
  /\ loadable = Loadable_new
  /\ outstanding = {}
  /\ mfailable = MutFailable_new
  /\ promises = [p \in Promises |-> Unsettled]
  /\ jobs = <<>>
  /\ accepts = 0
  /\ subject = "Dispatcher"
  /\ heap = Module
  /\ iter = NoIter

SpecAny == InitAny /\ [][Next]_vars

(***************************************************************************)
(* The state machine of a Loadable.  The client's calls are as above; the  *)
(* reaction to a promise given to accept runs between two calls, once the  *)
(* promise has settled.                                                    *)
(***************************************************************************)
LOp(op, arg, options, promise, r) ==
  [op |-> op, arg |-> arg, options |-> options, promise |-> promise,
   before |-> loadable, pending |-> outstanding, queue |-> jobs,
   thrown |-> r.thrown, error |-> r.error, result |-> r.result]

LFinish(op, arg, options, promise, r) ==
  /\ pc' = "returned"
  /\ loadable' = r.l
  /\ calls' = r.calls
  /\ last' = LOp(op, arg, options, promise, r)
  /\ UNCHANGED <<validStates, allHandlers, mfailable, subject, heap, iter>>

NoMatchOptions == [success |-> "", failure |-> "", pending |-> ""]

InitLoadable ==
  /\ validStates = states
  /\ allHandlers = Construct(validStates)
  /\ calls = <<>>
  /\ last = NoCall
  /\ pc = "ready"
  /\ loadable = Loadable_new
  /\ outstanding = {}
  /\ mfailable = MutFailable_new
  /\ promises = [p \in Promises |-> Unsettled]
  /\ jobs = <<>>
  /\ accepts = 0
  /\ subject = "Loadable"
  /\ heap = Module
  /\ iter = NoIter

LSuccess ==
  /\ subject = "Loadable"
  /\ pc = "ready"
  /\ \E d \in Data : LFinish("Loadable.success", d, NoMatchOptions, 0, Loadable_success(loadable, <<>>, d))
  /\ UNCHANGED <<outstanding, promises, jobs, accepts>>

LFailure ==
  /\ subject = "Loadable"
  /\ pc = "ready"
  /\ \E e \in Errors : LFinish("Loadable.failure", e, NoMatchOptions, 0, Loadable_failure(loadable, <<>>, e))
  /\ UNCHANGED <<outstanding, promises, jobs, accepts>>

LLoading ==
  /\ subject = "Loadable"
  /\ pc = "ready"
  /\ LFinish("Loadable.loading", Undefined, NoMatchOptions, 0, Loadable_loading(loadable, <<>>))
  /\ UNCHANGED <<outstanding, promises, jobs, accepts>>

LPending ==
  /\ subject = "Loadable"
  /\ pc = "ready"
  /\ LFinish("Loadable.pending", Undefined, NoMatchOptions, 0, Loadable_pending(loadable, <<>>))
  /\ UNCHANGED <<outstanding, promises, jobs, accepts>>

LMatch ==
  /\ subject = "Loadable"
  /\ pc = "ready"
  /\ \E options \in MatchOptions : LFinish("Loadable.match", Undefined, options, 0, Loadable_match(loadable, <<>>, options))
  /\ UNCHANGED <<outstanding, promises, jobs, accepts>>

\* The promises are numbered in the order in which the client gives them
\* to accept.  then(...) on a promise that has settled queues its reaction
\* at once.
LSuccessOr ==
  /\ subject = "Loadable"
  /\ pc = "ready"
  /\ \E d \in Fallbacks : LFinish("Loadable.successOr", d, NoMatchOptions, 0, Loadable_successOr(loadable, <<>>, d))
  /\ UNCHANGED <<outstanding, promises, jobs, accepts>>

LFailureOr ==
  /\ subject = "Loadable"
  /\ pc = "ready"
  /\ \E d \in Fallbacks : LFinish("Loadable.failureOr", d, NoMatchOptions, 0, Loadable_failureOr(loadable, <<>>, d))
  /\ UNCHANGED <<outstanding, promises, jobs, accepts>>

LAccept ==
  /\ subject = "Loadable"
  /\ pc = "ready"
  /\ accepts < MaxPromises
  /\ LET p == accepts + 1
     IN /\ LFinish("Loadable.accept", Undefined, NoMatchOptions, p, Loadable_accept(loadable, <<>>))
        /\ outstanding' = outstanding \cup {p}
        /\ jobs' = IF promises[p] = Unsettled THEN jobs ELSE Append(jobs, p)
  /\ accepts' = accepts + 1
  /\ UNCHANGED promises

\* a promise settles; if it was given to accept, its reaction is queued
Settle ==
  /\ pc = "ready"
  /\ \E p \in Promises, how \in Settlements :
       /\ promises[p] = Unsettled
       /\ promises' = [promises EXCEPT ![p] =
            [kind |-> how.kind, value |-> how.value,
             inFlight |-> IF p \in outstanding
                          THEN {q \in outstanding \ {p} : promises[q] = Unsettled}
                          ELSE {}]]
       /\ jobs' = IF p \in outstanding THEN Append(jobs, p) ELSE jobs
  /\ UNCHANGED <<validStates, allHandlers, calls, last, pc, loadable, outstanding, mfailable, subject, accepts, heap, iter>>

\* the oldest queued reaction runs
LReact ==
  /\ subject = "Loadable"
  /\ pc = "ready"
  /\ jobs # <<>>
  /\ LET p == Head(jobs)
     IN /\ LFinish("Loadable.settled", promises[p].value, NoMatchOptions, p,
                   Loadable_settled(loadable, <<>>, promises[p]))
        /\ outstanding' = outstanding \ {p}
  /\ jobs' = Tail(jobs)
  /\ UNCHANGED <<promises, accepts>>

NextLoadable ==
  \/ LSuccess
  \/ LFailure
  \/ LLoading
  \/ LPending
  \/ LMatch
  \/ LSuccessOr
  \/ LFailureOr
  \/ LAccept
  \/ Settle
  \/ LReact
  \/ Resume

SpecLoadable == InitLoadable /\ [][NextLoadable]_vars

(***************************************************************************)
(* The state machine of a mutable Failable, built as that of a Loadable.   *)
(***************************************************************************)
MOp(op, arg, options, promise, r) ==
  [op |-> op, arg |-> arg, options |-> options, promise |-> promise,
   before |-> mfailable, pending |-> outstanding, queue |-> jobs,
   thrown |-> r.thrown, error |-> r.error, result |-> r.result]

MFinish(op, arg, options, promise, r) ==
  /\ pc' = "returned"
  /\ mfailable' = r.l
  /\ calls' = r.calls
  /\ last' = MOp(op, arg, options, promise, r)
  /\ UNCHANGED <<validStates, allHandlers, loadable, subject, heap, iter>>

MSuccess ==
  /\ subject = "MutFailable"
  /\ pc = "ready"
  /\ \E d \in Data : MFinish("MutFailable.success", d, NoMatchOptions, 0, MutFailable_success(mfailable, <<>>, d))
  /\ UNCHANGED <<outstanding, promises, jobs, accepts>>

MFailure ==
  /\ subject = "MutFailable"
  /\ pc = "ready"
  /\ \E e \in Errors : MFinish("MutFailable.failure", e, NoMatchOptions, 0, MutFailable_failure(mfailable, <<>>, e))
  /\ UNCHANGED <<outstanding, promises, jobs, accepts>>

MPending ==
  /\ subject = "MutFailable"
  /\ pc = "ready"
  /\ MFinish("MutFailable.pending", Undefined, NoMatchOptions, 0, MutFailable_pending(mfailable, <<>>))
  /\ UNCHANGED <<outstanding, promises, jobs, accepts>>

MMatch ==
  /\ subject = "MutFailable"
  /\ pc = "ready"
  /\ \E options \in MatchOptions : MFinish("MutFailable.match", Undefined, options, 0, MutFailable_match(mfailable, <<>>, options))
  /\ UNCHANGED <<outstanding, promises, jobs, accepts>>

MSuccessOr ==
  /\ subject = "MutFailable"
  /\ pc = "ready"
  /\ \E d \in Fallbacks : MFinish("MutFailable.successOr", d, NoMatchOptions, 0, MutFailable_successOr(mfailable, <<>>, d))
  /\ UNCHANGED <<outstanding, promises, jobs, accepts>>

MFailureOr ==
  /\ subject = "MutFailable"
  /\ pc = "ready"
  /\ \E d \in Fallbacks : MFinish("MutFailable.failureOr", d, NoMatchOptions, 0, MutFailable_failureOr(mfailable, <<>>, d))
  /\ UNCHANGED <<outstanding, promises, jobs, accepts>>

MAccept ==
  /\ subject = "MutFailable"
  /\ pc = "ready"
  /\ accepts < MaxPromises
  /\ LET p == accepts + 1
     IN /\ MFinish("MutFailable.accept", Undefined, NoMatchOptions, p, MutFailable_accept(mfailable, <<>>))
        /\ outstanding' = outstanding \cup {p}
        /\ jobs' = IF promises[p] = Unsettled THEN jobs ELSE Append(jobs, p)
  /\ accepts' = accepts + 1
  /\ UNCHANGED promises

MReact ==
  /\ subject = "MutFailable"
  /\ pc = "ready"
  /\ jobs # <<>>
  /\ LET p == Head(jobs)
     IN /\ MFinish("MutFailable.settled", promises[p].value, NoMatchOptions, p,
                   MutFailable_settled(mfailable, <<>>, promises[p]))
        /\ outstanding' = outstanding \ {p}
  /\ jobs' = Tail(jobs)
  /\ UNCHANGED <<promises, accepts>>

NextMutFailable ==
  \/ MSuccess
  \/ MFailure
  \/ MPending
  \/ MMatch
  \/ MSuccessOr
  \/ MFailureOr
  \/ MAccept
  \/ Settle
  \/ MReact
  \/ Resume

(***************************************************************************)
(* A client of one of the two holders.  The reactions to settled promises  *)
(* are jobs of the microtask queue, which the event loop runs whenever     *)
(* the running code has returned to it.                                    *)
(***************************************************************************)
InitFutures ==
  /\ validStates = states
  /\ allHandlers = Construct(validStates)
  /\ calls = <<>>
  /\ last = NoCall
  /\ pc = "ready"
  /\ loadable = Loadable_new
  /\ outstanding = {}
  /\ mfailable = MutFailable_new
  /\ promises = [p \in Promises |-> Unsettled]
  /\ jobs = <<>>
  /\ accepts = 0
  /\ subject \in {"Loadable", "MutFailable"}
  /\ heap = Module
  /\ iter = NoIter

NextFutures ==
  \/ NextLoadable
  \/ NextMutFailable

SpecFutures == InitFutures /\ [][NextFutures]_vars

\* the steps that change a holder or a promise; match is left out, as it
\* changes neither
NextSettling ==
  \/ LSuccess
  \/ LFailure
  \/ LLoading
  \/ LPending
  \/ LAccept
  \/ LReact
  \/ MSuccess
  \/ MFailure
  \/ MPending
  \/ MAccept
  \/ MReact
  \/ Settle
  \/ Resume

FairFutures ==
  /\ InitFutures
  /\ [][NextSettling]_vars
  /\ WF_vars(Resume)
  /\ SF_vars(LReact)
  /\ SF_vars(MReact)

(***************************************************************************)
(* The state machine of a client of Try, of the guards and of the          *)
(* conversions.  The registry is the one of Try.                           *)
(***************************************************************************)
TOp(op, state, f, value, r) ==
  [op |-> op, state |-> state, f |-> f, value |-> value, before |-> allHandlers,
   thrown |-> r.thrown, error |-> r.error, result |-> r.result]

TFinish(op, state, f, value, r) ==
  /\ pc' = "returned"
  /\ allHandlers' = r.ah
  /\ calls' = r.calls
  /\ last' = TOp(op, state, f, value, r)
  /\ UNCHANGED <<validStates, loadable, outstanding, mfailable, promises, jobs, subject, accepts, heap, iter>>

InitTry ==
  /\ validStates = states
  /\ allHandlers = Try_allHandlers
  /\ calls = <<>>
  /\ last = NoCall
  /\ pc = "ready"
  /\ loadable = Loadable_new
  /\ outstanding = {}
  /\ mfailable = MutFailable_new
  /\ promises = [p \in Promises |-> Unsettled]
  /\ jobs = <<>>
  /\ accepts = 0
  /\ subject = "Try"
  /\ heap = Module
  /\ iter = NoIter

TryOn ==
  /\ pc = "ready"
  /\ Total(allHandlers, DOMAIN allHandlers) < MaxListeners
  /\ \E n \in NameInputs(states), h \in Listeners :
       TFinish("Try.on", n, h, Primitive(Undefined), Try_on(allHandlers, <<>>, n, h))

TryNew ==
  /\ pc = "ready"
  /\ \E f \in JsValues : TFinish("new Try", NoName, Undefined, f, Try_new(f, allHandlers, <<>>))

ToFailable ==
  /\ pc = "ready"
  /\ \E f \in Thunks : TFinish("toFailable", NoName, Undefined, f, toFailable(f, allHandlers, <<>>))

ResultFrom ==
  /\ pc = "ready"
  /\ \E f \in Thunks : TFinish("Result.from", NoName, Undefined, f, Result_from(f, allHandlers, <<>>))

ToResult ==
  /\ pc = "ready"
  /\ \E f \in Thunks : TFinish("toResult", NoName, Undefined, f, toResult(f, allHandlers, <<>>))

\* success(x), failure(e) or the constant pending
MakeFailable ==
  /\ pc = "ready"
  /\ \/ \E x \in SuccessPayloads :
          TFinish("success", NoName, x, Primitive(Undefined), Return(allHandlers, <<>>, Value(AsValue(success(x)))))
     \/ \E e \in Errors :
          TFinish("failure", NoName, e, Primitive(Undefined), Return(allHandlers, <<>>, Value(AsValue(failure(e)))))
     \/ TFinish("pending", NoName, Undefined, Primitive(Undefined), Return(allHandlers, <<>>, Value(AsValue(pending))))

IsFailable ==
  /\ pc = "ready"
  /\ \E x \in JsValues : TFinish("isFailable", NoName, Undefined, x, isFailable(x, allHandlers, <<>>))

FailableIs ==
  /\ pc = "ready"
  /\ \E x \in JsValues : TFinish("Failable.is", NoName, Undefined, x, Failable_is(x, allHandlers, <<>>))

NextTry ==
  \/ TryOn
  \/ TryNew
  \/ ToFailable
  \/ ResultFrom
  \/ ToResult
  \/ MakeFailable
  \/ IsFailable
  \/ FailableIs
  \/ Resume

SpecTry == InitTry /\ [][NextTry]_vars

(***************************************************************************)
(* The state machine of a client of the frozen values.  The client         *)
(* constructs values, which it holds by reference, gives them to the       *)
(* predicates, the guard and the matchers, registers listeners and         *)
(* dispatches, and tries to assign to the properties of a value.  The      *)
(* library's operations contain no assignment to a value they are given.   *)
(***************************************************************************)
VOp(op, ref, arg, options, r) ==
  [op |-> op, ref |-> ref, arg |-> arg, options |-> options, before |-> heap,
   registry |-> allHandlers, thrown |-> r.thrown, error |-> r.error, result |-> r.result]

VFinish(op, ref, arg, options, r) ==
  /\ pc' = "returned"
  /\ allHandlers' = r.ah
  /\ calls' = r.calls
  /\ last' = VOp(op, ref, arg, options, r)
  /\ UNCHANGED <<validStates, loadable, outstanding, mfailable, promises, jobs, subject, accepts, iter>>

\* a reference to the object at index n of the heap
Ref(n) == [fn |-> "ref", args |-> <<n>>]
\* the references the client holds
Refs == DOMAIN heap

\* the options a client of the values passes to the matchers
ValueOptions == {o \in WhenOptions : o.success = CallerFn("k1") /\ o.failure = CallerFn("k2")}
\* the listener a client of the values registers
ValueListeners == {"h1"}
\* what the client tries to assign: f.error = true, f.data = 'x2'
Writes == {<<"error", "true">>, <<"data", "x2">>}

InitValues ==
  /\ validStates = states
  /\ allHandlers = Construct(validStates)
  /\ calls = <<>>
  /\ last = NoCall
  /\ pc = "ready"
  /\ loadable = Loadable_new
  /\ outstanding = {}
  /\ mfailable = MutFailable_new
  /\ promises = [p \in Promises |-> Unsettled]
  /\ jobs = <<>>
  /\ accepts = 0
  /\ subject = "Values"
  /\ heap = Module
  /\ iter = NoIter

\* the object a constructor returns is a new one
New(op, arg, o) ==
  /\ Len(heap) - 1 < MaxValues
  /\ VFinish(op, 0, arg, NoOptions, Return(allHandlers, <<>>, Ref(Len(heap) + 1)))
  /\ heap' = Append(heap, o)

VSuccess ==
  /\ pc = "ready"
  /\ \E d \in Data : New("success", d, freeze(success(d)))

VFailure ==
  /\ pc = "ready"
  /\ \E e \in Errors : New("failure", e, freeze(failure(e)))

VReloading ==
  /\ pc = "ready"
  /\ \E d \in Data : New("reloading", d, freeze(reloading(d)))

VRetrying ==
  /\ pc = "ready"
  /\ \E e \in Errors : New("retrying", e, freeze(retrying(e)))

\* the constant: reading it constructs nothing
VPending ==
  /\ pc = "ready"
  /\ VFinish("pending", 0, Undefined, NoOptions, Return(allHandlers, <<>>, Ref(PendingRef)))
  /\ UNCHANGED heap

\* a predicate applied to a value the client holds
Ask(op, ref, answer) ==
  /\ VFinish(op, ref, Undefined, NoOptions, Return(allHandlers, <<>>, Value(Bool(answer))))
  /\ UNCHANGED heap

VIsSuccess ==
  /\ pc = "ready"
  /\ \E ref \in Refs : Ask("isSuccess", ref, isSuccess(heap[ref].value))

VIsFailure ==
  /\ pc = "ready"
  /\ \E ref \in Refs : Ask("isFailure", ref, isFailure(heap[ref].value))

VIsPending ==
  /\ pc = "ready"
  /\ \E ref \in Refs : Ask("isPending", ref, isPending(heap[ref].value))

VIsReloading ==
  /\ pc = "ready"
  /\ \E ref \in Refs : Ask("isReloading", ref, isReloading(heap[ref].value))

VIsRetrying ==
  /\ pc = "ready"
  /\ \E ref \in Refs : Ask("isRetrying", ref, isRetrying(heap[ref].value))

VIsFailable ==
  /\ pc = "ready"
  /\ \E ref \in Refs :
       VFinish("isFailable", ref, Undefined, NoOptions, isFailable(AsValue(heap[ref].value), allHandlers, <<>>))
  /\ UNCHANGED heap

VWhen ==
  /\ pc = "ready"
  /\ \E ref \in Refs, options \in ValueOptions :
       VFinish("when", ref, Undefined, options, when(heap[ref].value, options, allHandlers, <<>>))
  /\ UNCHANGED heap

VFailableWhen ==
  /\ pc = "ready"
  /\ \E ref \in Refs, options \in ValueOptions :
       VFinish("Failable.when", ref, Undefined, options, Failable_when(heap[ref].value, options, allHandlers, <<>>))
  /\ UNCHANGED heap

VAddListener ==
  /\ pc = "ready"
  /\ Total(allHandlers, DOMAIN allHandlers) < MaxListeners
  /\ \E n \in Range(states), h \in ValueListeners :
       VFinish("addListener", 0, n, NoOptions, addListener(allHandlers, <<>>, n, h))
  /\ UNCHANGED heap

\* Failable.dispatch(state, f.data) for a value the client holds
VDispatch ==
  /\ pc = "ready"
  /\ \E n \in Range(states), ref \in Refs :
       VFinish("dispatch", ref, n, NoOptions, dispatch(allHandlers, <<>>, n, heap[ref].value.data))
  /\ UNCHANGED heap

\* f.error = true or f.data = 'x2', written by the client
VAssign ==
  /\ pc = "ready"
  /\ \E ref \in Refs, w \in Writes, strict \in BOOLEAN :
       LET a == Assign(heap[ref], w[1], w[2], strict)
       IN /\ VFinish("assign", ref, w, NoOptions,
                     IF a.thrown THEN Throw(allHandlers, <<>>, a.error) ELSE Return(allHandlers, <<>>, Void))
          /\ heap' = [heap EXCEPT ![ref] = a.cell]

NextValues ==
  \/ VSuccess
  \/ VFailure
  \/ VReloading
  \/ VRetrying
  \/ VPending
  \/ VIsSuccess
  \/ VIsFailure
  \/ VIsPending
  \/ VIsReloading
  \/ VIsRetrying
  \/ VIsFailable
  \/ VWhen
  \/ VFailableWhen
  \/ VAddListener
  \/ VDispatch
  \/ VAssign
  \/ Resume

SpecValues == InitValues /\ [][NextValues]_vars

(***************************************************************************)
(* The state machine of a client of a Dispatcher whose listeners may call  *)
(* back into it.  addListener and removeListener are single steps, as      *)
(* above; a dispatch is a step that creates the iterator, a step for each  *)
(* round of the loop, and a step that ends the call.  Everything runs on   *)
(* one thread: while a dispatch is under way the only code that runs is    *)
(* the listener it has invoked.                                            *)
(***************************************************************************)
InitReentrant ==
  /\ validStates = ABC
  /\ allHandlers = Construct(validStates)
  /\ calls = <<>>
  /\ last = NoCall
  /\ pc = "ready"
  /\ loadable = Loadable_new
  /\ outstanding = {}
  /\ mfailable = MutFailable_new
  /\ promises = [p \in Promises |-> Unsettled]
  /\ jobs = <<>>
  /\ accepts = 0
  /\ subject = "Reentrant"
  /\ heap = Module
  /\ iter = NoIter

RAddListener ==
  /\ pc = "ready"
  /\ Total(allHandlers, DOMAIN allHandlers) < MaxListeners
  /\ \E n \in Range(validStates), h \in Handlers :
       Finish("addListener", n, h, Undefined, NoFailable, NoOptions,
              addListener(allHandlers, <<>>, n, h))

RRemoveListener ==
  /\ pc = "ready"
  /\ \E n \in Range(validStates), h \in Handlers \cup {Undefined} :
       Finish("removeListener", n, h, Undefined, NoFailable, NoOptions,
              removeListener(allHandlers, <<>>, n, h))

\* dispatch(state, data): this.handlersOf(state) and the iterator over it
RDispatchBegin ==
  /\ pc = "ready"
  /\ Total(allHandlers, DOMAIN allHandlers) <= MaxListeners
  /\ \E n \in Range(validStates), x \in Data :
       LET h == handlersOf(allHandlers, <<>>, n)
       IN /\ ~h.thrown
          /\ h.result.type = "array"
          /\ iter' = Iterator(h.result.key, x, allHandlers)
  /\ pc' = "dispatching"
  /\ UNCHANGED <<validStates, allHandlers, calls, last, loadable, outstanding, mfailable, promises, jobs, subject, accepts, heap>>

\* the record of a dispatch that has ended, with the registry as it was
\* when the dispatch began
Dispatched(it, r) ==
  [Op("dispatch", it.key, Undefined, it.data, NoFailable, NoOptions, r) EXCEPT !.before = it.began]

\* one round of the loop; a listener that raises ends the call
RDispatchStep ==
  /\ pc = "dispatching"
  /\ ~Done(allHandlers, iter)
  /\ Len(calls) < MaxInvocations
  /\ LET r == Step(allHandlers, calls, iter)
     IN /\ allHandlers' = r.ah
        /\ calls' = r.calls
        /\ IF r.thrown
           THEN pc' = "returned" /\ last' = Dispatched(iter, r) /\ iter' = NoIter
           ELSE pc' = pc /\ last' = last /\ iter' = [iter EXCEPT !.i = @ + 1]
  /\ UNCHANGED <<validStates, loadable, outstanding, mfailable, promises, jobs, subject, accepts, heap>>

\* the iterator is done: dispatch returns
RDispatchEnd ==
  /\ pc = "dispatching"
  /\ Done(allHandlers, iter)
  /\ pc' = "returned"
  /\ last' = Dispatched(iter, Return(allHandlers, calls, Void))
  /\ iter' = NoIter
  /\ UNCHANGED <<validStates, allHandlers, calls, loadable, outstanding, mfailable, promises, jobs, subject, accepts, heap>>

NextReentrant ==
  \/ RAddListener
  \/ RRemoveListener
  \/ RDispatchBegin
  \/ RDispatchStep
  \/ RDispatchEnd
  \/ Resume

SpecReentrant == InitReentrant /\ [][NextReentrant]_vars

(***************************************************************************)
(* Vocabulary of the properties.                                           *)
(***************************************************************************)
\* the state name under which Failable.when reports f
StateOf(f) == IF isSuccess(f) THEN S_success ELSE IF isFailure(f) THEN S_failure ELSE S_pending
\* the name is one the registry was constructed with
Valid(n) == n \in Range(validStates)
\* no listener of the list raises when it is invoked
NoRaiser(list) == \A i \in DOMAIN list : ~Raises(list[i])
\* the trace of invoking every listener of the list, in order, with data
ListenerCalls(list, data) == [i \in DOMAIN list |-> Call(list[i], <<data>>)]
\* how often h occurs in the list
Count(list, h) == Cardinality({i \in DOMAIN list : list[i] = h})
\* how often the trace invokes h
Invocations(cs, h) == Cardinality({i \in DOMAIN cs : cs[i].fn = h})
\* the caller's handler that matches f, and the arguments it is to receive
Chosen(f, options) == IF isSuccess(f) THEN options.success ELSE IF isFailure(f) THEN options.failure ELSE options.pending
ArgsFor(f) == IF isPending(f) THEN <<>> ELSE <<f.data>>
\* the last call was `when` or Failable.when whose registry phase, if any,
\* met no raising listener
Matched ==
  \/ last.op = "when"
  \/ last.op = "Failable.when" /\ NoRaiser(last.before[StateOf(last.value)])

(***************************************************************************)
(* C1: matching a pending value with no pending handler throws a           *)
(* TypeError and does not return (so never returns undefined); matching    *)
(* it with a pending handler returns that handler's result and throws      *)
(* nothing.  This holds of `when` and of Failable.when (whose listeners    *)
(* are taken not to raise).                                                *)
(***************************************************************************)
C1_PendingNeedsHandler ==
  (Matched /\ isPending(last.value)) =>
    IF last.options.pending = NoHandler
    THEN last.thrown /\ last.error = "TypeError" /\ last.result # Void
    ELSE ~last.thrown /\ last.result = RetVal(last.options.pending.id, <<>>)

C1_Witness ==
  /\ last.op = "Failable.when"
  /\ isPending(last.value)
  /\ last.options.pending = NoHandler
  /\ last.thrown /\ last.error = "TypeError"

(***************************************************************************)
(* C2: `when` with all three handlers invokes exactly one of them, once,   *)
(* chosen by the tag of the value: success receives the payload, failure   *)
(* receives the error, pending receives no argument; no other handler      *)
(* runs, and the call returns what the invoked handler returned.           *)
(***************************************************************************)
C2_ExactlyOneHandler ==
  (last.op = "when" /\ last.options.pending # NoHandler) =>
    LET h == Chosen(last.value, last.options)
        args == ArgsFor(last.value)
    IN /\ calls = <<Call(h.id, args)>>
       /\ ~last.thrown
       /\ last.result = RetVal(h.id, args)

C2_Witness ==
  /\ last.op = "when"
  /\ isFailure(last.value)
  /\ last.options.pending # NoHandler
  /\ last.options.success # last.options.failure
  /\ calls = <<Call(last.options.failure.id, <<last.value.data>>)>>

(***************************************************************************)
(* C3: in a call of Failable.when the listeners registered for the state   *)
(* of the value are each invoked once, in order, with the payload          *)
(* (undefined for pending); this is over before a caller's handler runs;   *)
(* listeners of the other states are not invoked.  (Listeners are taken    *)
(* not to raise.)                                                          *)
(***************************************************************************)
C3_ObserveThenMatch ==
  (last.op = "Failable.when" /\ NoRaiser(last.before[StateOf(last.value)])) =>
    LET list == last.before[StateOf(last.value)]
        n == Len(list)
    IN /\ Len(calls) >= n
       /\ SubSeq(calls, 1, n) = ListenerCalls(list, last.value.data)
       /\ \A i \in (n + 1)..Len(calls) : calls[i].fn \in Callers

C3_Witness ==
  /\ last.op = "Failable.when"
  /\ isSuccess(last.value)
  /\ Len(last.before[S_success]) = 2
  /\ last.before[S_success][1] # last.before[S_success][2]
  /\ last.before[S_failure] # <<>>
  /\ Len(calls) = 3
  /\ calls[3].fn \in Callers

(***************************************************************************)
(* C4: Failable.when on a pending value without a pending handler still    *)
(* invokes every listener registered for 'pending', in registration        *)
(* order, and only then throws the TypeError: the registry phase does not  *)
(* throw it.  (Listeners are taken not to raise.)                          *)
(***************************************************************************)
C4_ObservedBeforeTypeError ==
  (/\ last.op = "Failable.when"
   /\ isPending(last.value)
   /\ last.options.pending = NoHandler
   /\ NoRaiser(last.before[S_pending])) =>
    /\ calls = ListenerCalls(last.before[S_pending], Undefined)
    /\ last.thrown
    /\ last.error = "TypeError"
    /\ allHandlers = last.before

C4_Witness ==
  /\ last.op = "Failable.when"
  /\ isPending(last.value)
  /\ last.options.pending = NoHandler
  /\ last.before[S_pending] = <<"h2", "h1">>
  /\ calls = <<Call("h2", <<Undefined>>), Call("h1", <<Undefined>>)>>
  /\ last.error = "TypeError"

(***************************************************************************)
(* C5: dispatch(state, data) invokes every callback of the list of state,  *)
(* in registration order, once per entry, each with data, and no callback  *)
(* that is registered under another state only.  (Listeners are taken not  *)
(* to raise.)                                                              *)
(***************************************************************************)
C5_DispatchInOrder ==
  (last.op = "dispatch" /\ Valid(last.state) /\ NoRaiser(last.before[last.state])) =>
    /\ calls = ListenerCalls(last.before[last.state], last.data)
    /\ ~last.thrown
    /\ allHandlers = last.before

C5_Witness ==
  /\ last.op = "dispatch"
  /\ Valid(last.state)
  /\ Len(last.before[last.state]) = 2
  /\ last.before[last.state][1] # last.before[last.state][2]
  /\ \E k \in DOMAIN last.before : k # last.state /\ last.before[k] # <<>>
  /\ Len(calls) = 2

\* the list without its first occurrence of f
RemoveFirst(list, f) ==
  IF f \in Range(list)
  THEN SpliceOne(list, CHOOSE i \in DOMAIN list : list[i] = f /\ \A j \in 1..(i - 1) : list[j] # f)
  ELSE list
\* every list but that of state is as it was before the call
OthersUnchanged(state) ==
  /\ DOMAIN allHandlers = DOMAIN last.before
  /\ \A k \in DOMAIN allHandlers : k # state => allHandlers[k] = last.before[k]

(***************************************************************************)
(* C6: removeListener(state, cb) removes the first occurrence of cb in     *)
(* the list of state and only that one: a cb that occurs k >= 1 times      *)
(* (adjacent or not) occurs k - 1 times afterwards, the earliest entry     *)
(* being the one removed.  The code does not do this: its loop goes on     *)
(* after a removal, so it removes every occurrence except one that         *)
(* directly follows a removed one.                                         *)
(***************************************************************************)
C6_RemovesFirstOnly ==
  (/\ last.op = "removeListener"
   /\ Valid(last.state)
   /\ last.f # Undefined
   /\ last.f \in Range(last.before[last.state])) =>
    /\ allHandlers[last.state] = RemoveFirst(last.before[last.state], last.f)
    /\ Count(allHandlers[last.state], last.f) = Count(last.before[last.state], last.f) - 1

(***************************************************************************)
(* C7: removeListener(state, cb) for a valid state whose list does not     *)
(* hold cb raises no error and leaves every list as it was.                *)
(***************************************************************************)
C7_RemoveAbsentIsNoOp ==
  (/\ last.op = "removeListener"
   /\ Valid(last.state)
   /\ last.f # Undefined
   /\ last.f \notin Range(last.before[last.state])) =>
    /\ ~last.thrown
    /\ allHandlers = last.before
    /\ calls = <<>>

C7_Witness ==
  /\ last.op = "removeListener"
  /\ Valid(last.state)
  /\ last.f = "h1"
  /\ last.before[last.state] = <<"h2", "hx">>
  /\ \E k \in DOMAIN last.before : k # last.state /\ "h1" \in Range(last.before[k])
  /\ ~last.thrown

(***************************************************************************)
(* C8: removeListener(state) without a callback empties the list of        *)
(* state, so that a dispatch(state, x) that follows invokes nothing, and   *)
(* leaves the lists of all other states as they were.                      *)
(***************************************************************************)
C8_RemoveAllEmptiesOneState ==
  (last.op = "removeListener" /\ Valid(last.state) /\ last.f = Undefined) =>
    /\ ~last.thrown
    /\ allHandlers[last.state] = <<>>
    /\ OthersUnchanged(last.state)
    /\ \A x \in Data :
         LET next == dispatch(allHandlers, <<>>, last.state, x)
         IN next.calls = <<>> /\ ~next.thrown

C8_Witness ==
  /\ last.op = "removeListener"
  /\ Valid(last.state)
  /\ last.f = Undefined
  /\ Len(last.before[last.state]) = 2
  /\ \E k \in DOMAIN last.before : k # last.state /\ allHandlers[k] # <<>>
  /\ allHandlers[last.state] = <<>>

(***************************************************************************)
(* C9: addListener(state, cb) appends cb at the end of the list of state   *)
(* and changes no other list; a cb registered k times is invoked k times   *)
(* by each dispatch(state, x).  (For the dispatch, listeners are taken     *)
(* not to raise.)                                                          *)
(***************************************************************************)
C9_AddAppends ==
  (last.op = "addListener" /\ Valid(last.state)) =>
    /\ ~last.thrown
    /\ allHandlers[last.state] = Append(last.before[last.state], last.f)
    /\ OthersUnchanged(last.state)
    /\ NoRaiser(allHandlers[last.state]) =>
         \A x \in Data :
           LET next == dispatch(allHandlers, <<>>, last.state, x)
           IN Invocations(next.calls, last.f) = Count(last.before[last.state], last.f) + 1

C9_Witness ==
  /\ last.op = "addListener"
  /\ Valid(last.state)
  /\ last.f = "h1"
  /\ last.before[last.state] = <<"h1", "h2">>
  /\ allHandlers[last.state] = <<"h1", "h2", "h1">>

(***************************************************************************)
(* C10: for a registry over the names S and a string n that is not in S    *)
(* (a string that differs from a member of S in letter case included),     *)
(* handlersOf(n), addListener(n, cb), removeListener(n, cb) and            *)
(* dispatch(n, x) each throw a TypeError, invoke no callback and leave     *)
(* every list as it was.  The code does not do this: handlersOf looks the  *)
(* lower-cased name up in a plain object.                                  *)
(***************************************************************************)
C10_UnknownNameThrows ==
  (/\ last.op \in {"handlersOf", "addListener", "removeListener", "dispatch"}
   /\ (last.op = "removeListener" => last.f # Undefined)
   /\ ~Valid(last.state)) =>
    /\ last.thrown
    /\ last.error = "TypeError"
    /\ calls = <<>>
    /\ allHandlers = last.before

(***************************************************************************)
(* C11: a Dispatcher constructed over any set S of names (not only lower-  *)
(* case ones) has an empty list for every name of S: right after           *)
(* construction handlersOf(s) returns an empty list without error for      *)
(* every s in S, and clear() completes without error.  The code does not   *)
(* do this: the constructor stores the list under the name as given and    *)
(* handlersOf looks up the lower-cased name.                               *)
(***************************************************************************)
C11_ConstructedOverAnyNames ==
  (last.before = Construct(validStates)) =>
    /\ (last.op = "handlersOf" /\ Valid(last.state)) =>
         /\ ~last.thrown
         /\ last.result.type = "array"
         /\ allHandlers[last.result.key] = <<>>
    /\ last.op = "clear" => ~last.thrown

\* the registry that results from removeListener(s) for s = vs[i], vs[i+1], ...
RECURSIVE RemoveEach(_, _, _)
RemoveEach(ah, vs, i) ==
  IF i > Len(vs) THEN ah
  ELSE RemoveEach(removeListener(ah, <<>>, vs[i], Undefined).ah, vs, i + 1)

(***************************************************************************)
(* C12: clear() empties the list of every valid state and the registry     *)
(* stays usable: the result is that of removeListener(s) without callback  *)
(* for every valid s, and after an addListener(s, cb) that follows, the    *)
(* next dispatch(s, x) invokes exactly cb.  (Checked for the registries    *)
(* the repository constructs, whose names are lower case.)                 *)
(***************************************************************************)
C12_ClearEmptiesAll ==
  last.op = "clear" =>
    /\ ~last.thrown
    /\ \A k \in DOMAIN allHandlers : allHandlers[k] = <<>>
    /\ allHandlers = RemoveEach(last.before, validStates, 1)
    /\ \A s \in Range(validStates), cb \in Listeners, x \in Data :
         LET added == addListener(allHandlers, <<>>, s, cb)
             next == dispatch(added.ah, <<>>, s, x)
         IN ~added.thrown /\ next.calls = <<Call(cb, <<x>>)>>

C12_Witness ==
  /\ last.op = "clear"
  /\ Cardinality({k \in DOMAIN last.before : last.before[k] # <<>>}) = 3
  /\ \A k \in DOMAIN allHandlers : allHandlers[k] = <<>>

(***************************************************************************)
(* C13: after any sequence of addListener, removeListener, dispatch and    *)
(* clear calls, with valid or invalid names, the set of names that have a  *)
(* list is exactly the set S the registry was constructed over.            *)
(***************************************************************************)
C13_NamesFixed == DOMAIN allHandlers = Range(validStates)

C13_Witness ==
  /\ last.op = "addListener"
  /\ ~Valid(last.state)
  /\ ~last.thrown
  /\ allHandlers # last.before
  /\ DOMAIN allHandlers = Range(validStates)

\* the position of the first listener of the list that raises
FirstRaiser(list) == CHOOSE i \in DOMAIN list : Raises(list[i]) /\ \A j \in 1..(i - 1) : ~Raises(list[j])

(***************************************************************************)
(* C14: when a callback raises during dispatch(state, data), the error     *)
(* reaches the caller of dispatch, no callback registered after the        *)
(* raising one is invoked, the callbacks before it were each invoked       *)
(* once, and the lists are as they were.                                   *)
(***************************************************************************)
C14_RaiseAbortsDispatch ==
  (last.op = "dispatch" /\ Valid(last.state) /\ ~NoRaiser(last.before[last.state])) =>
    LET list == last.before[last.state]
    IN /\ last.thrown
       /\ last.error = "Error"
       /\ calls = ListenerCalls(SubSeq(list, 1, FirstRaiser(list)), last.data)
       /\ allHandlers = last.before

C14_Witness ==
  /\ last.op = "dispatch"
  /\ Valid(last.state)
  /\ last.before[last.state] = <<"h1", "hx", "h2">>
  /\ calls = <<Call("h1", <<last.data>>), Call("hx", <<last.data>>)>>
  /\ last.thrown

(***************************************************************************)
(* C15: whatever addListener, removeListener and Failable.when calls came  *)
(* before, a call Failable.when(f, options) invokes a listener h exactly   *)
(* as often as h occurs in the list of the state of f at the time of the   *)
(* call (not at all when it does not occur); so a listener sees every      *)
(* value of its state from its registration to its removal.  (Listeners    *)
(* are taken not to raise.)                                                *)
(***************************************************************************)
C15_InvokedIffRegistered ==
  (last.op = "Failable.when" /\ NoRaiser(last.before[StateOf(last.value)])) =>
    \A h \in Listeners :
      Invocations(calls, h) = Count(last.before[StateOf(last.value)], h)

C15_Witness ==
  /\ last.op = "Failable.when"
  /\ isFailure(last.value)
  /\ last.before[S_failure] = <<"h1", "h1">>
  /\ last.before[S_success] = <<"h2">>
  /\ Invocations(calls, "h1") = 2
  /\ Invocations(calls, "h2") = 0


(***************************************************************************)
(* Loadable                                                                *)
(***************************************************************************)
IdleStates == {"empty", "success", "failure"}
BusyStates == {"pending", "reloading", "retrying"}
\* the hooks that ran during the last call, by name
HookNames == [i \in 1..Len(calls) |-> calls[i].fn]

\* C16: loading() on an idle Loadable turns empty into pending, success
\* into reloading and failure into retrying, leaves the payload as it was
\* and invokes didBecomeLoading exactly once.
C16_LoadingFromIdle ==
  (last.op = "Loadable.loading" /\ last.before.state \in IdleStates) =>
    /\ last.before.state = "empty" => loadable.state = "pending"
    /\ last.before.state = "success" => loadable.state = "reloading"
    /\ last.before.state = "failure" => loadable.state = "retrying"
    /\ loadable.data = last.before.data
    /\ HookNames = <<"didBecomeLoading">>
    /\ ~last.thrown

C16_Witness ==
  /\ last.op = "Loadable.loading"
  /\ last.before.state = "success"
  /\ loadable.state = "reloading"
  /\ loadable.data \in Data

\* C17: loading() on a busy Loadable (pending, reloading, retrying)
\* changes neither state nor payload and does not invoke
\* didBecomeLoading; hence a second loading() right after a first one
\* changes nothing and invokes no hook, so that the two together invoke
\* the hook at most once.
C17_LoadingWhenBusyIsNoOp ==
  /\ (last.op = "Loadable.loading" /\ last.before.state \in BusyStates) =>
       /\ loadable = last.before
       /\ calls = <<>>
       /\ ~last.thrown
  /\ last.op = "Loadable.loading" =>
       LET again == Loadable_loading(loadable, calls)
       IN /\ again.l = loadable
          /\ again.calls = calls
          /\ Len(again.calls) <= 1

C17_Witness ==
  /\ last.op = "Loadable.loading"
  /\ last.before.state = "retrying"
  /\ loadable.state = "retrying"
  /\ calls = <<>>

\* the calls that leave the state empty behind
LeavingEmpty == {"Loadable.success", "Loadable.failure", "Loadable.loading",
                 "Loadable.pending", "Loadable.accept"}

\* C18: a Loadable is empty from its construction until its first
\* success, failure, loading, pending or accept call: each of these calls
\* ends in a state other than empty, nothing else leaves empty, and no
\* call or promise settlement makes a Loadable that is not empty empty
\* again.
C18_EmptyOnlyInitially ==
  /\ [](last.op \in LeavingEmpty => loadable.state # "empty")
  /\ [][(loadable.state = "empty" /\ loadable'.state # "empty") => last'.op \in LeavingEmpty]_vars
  /\ [][loadable.state # "empty" => loadable'.state # "empty"]_vars

C18_Witness ==
  /\ last.op = "Loadable.loading"
  /\ last.before.state = "pending"
  /\ last.pending # {}
  /\ loadable.state # "empty"

\* C19: in every reachable state of a Loadable isLoading holds exactly in
\* pending, reloading and retrying, isSuccess exactly in success and
\* reloading, isFailure exactly in failure and retrying, isPending exactly
\* in empty and pending, and exactly one of isSuccess, isFailure and
\* isPending holds.
C19_PredicatesPartition ==
  /\ loadable.state \in LoadableStates
  /\ Loadable_isLoading(loadable) <=> loadable.state \in {"pending", "reloading", "retrying"}
  /\ Loadable_isSuccess(loadable) <=> loadable.state \in {"success", "reloading"}
  /\ Loadable_isFailure(loadable) <=> loadable.state \in {"failure", "retrying"}
  /\ Loadable_isPending(loadable) <=> loadable.state \in {"empty", "pending"}
  /\ Cardinality({p \in {"isSuccess", "isFailure", "isPending"} :
                    \/ p = "isSuccess" /\ Loadable_isSuccess(loadable)
                    \/ p = "isFailure" /\ Loadable_isFailure(loadable)
                    \/ p = "isPending" /\ Loadable_isPending(loadable)}) = 1

C19_Witness ==
  /\ loadable.state = "retrying"
  /\ Loadable_isFailure(loadable)
  /\ Loadable_isLoading(loadable)
  /\ last.op = "Loadable.accept"

\* C20: match calls exactly one of the three callbacks: success in
\* success and reloading, failure in failure and retrying, pending in
\* empty and pending; success and failure receive the payload first;
\* the last argument is true in pending, reloading and retrying and false
\* in empty, success and failure; match returns what the callback
\* returned and leaves the Loadable as it was.
C20_MatchCallsOne ==
  last.op = "Loadable.match" =>
    LET b == last.before
        flag == Bool(b.state \in BusyStates)
        chosen == CASE b.state \in {"success", "reloading"} -> last.options.success
                    [] b.state \in {"failure", "retrying"} -> last.options.failure
                    [] b.state \in {"empty", "pending"} -> last.options.pending
        args == IF b.state \in {"empty", "pending"} THEN <<flag>> ELSE <<b.data, flag>>
    IN /\ calls = <<Call(chosen, args)>>
       /\ ~last.thrown
       /\ last.result = RetVal(chosen, args)
       /\ loadable = b

C20_Witness ==
  /\ last.op = "Loadable.match"
  /\ last.before.state = "reloading"
  /\ Cardinality({last.options.success, last.options.failure, last.options.pending}) = 3
  /\ calls = <<Call(last.options.success, <<"x1", "true">>)>>

\* the payloads a holder can have
Payloads == Data \cup Errors \cup {Undefined}

\* C21: pending() on a Loadable does what loading() does in each of the
\* six states: a pending() call leaves the state, the payload and the
\* hooks invoked that a loading() call on the same Loadable leaves, and
\* in particular keeps the payload; pending() on a mutable Failable
\* always leaves the state pending and the data undefined.
C21_PendingIsLoading ==
  /\ last.op = "Loadable.pending" =>
       LET r == Loadable_loading(last.before, <<>>)
       IN /\ loadable = r.l
          /\ calls = r.calls
          /\ last.result = r.result
          /\ loadable.data = last.before.data
          /\ last.before.state = "empty" => loadable.state = "pending"
          /\ last.before.state = "success" => loadable.state = "reloading"
          /\ last.before.state = "failure" => loadable.state = "retrying"
          /\ last.before.state \in BusyStates => loadable.state = last.before.state
  /\ \A st \in FutureStates, d \in Payloads :
       MutFailable_pending([state |-> st, data |-> d], <<>>).l = [state |-> "pending", data |-> Undefined]

C21_Witness ==
  /\ last.op = "Loadable.pending"
  /\ last.before = [state |-> "success", data |-> "x2"]
  /\ loadable = [state |-> "reloading", data |-> "x2"]
  /\ HookNames = <<"didBecomeLoading">>

\* the holder the client uses, and whether it shows a load
Holder == IF subject = "Loadable" THEN loadable ELSE mfailable
HolderIsLoading ==
  IF subject = "Loadable" THEN Loadable_isLoading(loadable) ELSE MutFailable_isPending(mfailable)
\* the begin-loading transition of a Loadable, as the documentation of
\* loading() states it
BeginLoading(st) ==
  CASE st = "empty" -> "pending"
    [] st = "success" -> "reloading"
    [] st = "failure" -> "retrying"
    [] OTHER -> st
ReactionRan(p) == last.op \in {"Loadable.settled", "MutFailable.settled"} /\ last.promise = p

\* C22: when accept(promise) returns, a Loadable has made the
\* begin-loading transition and kept its payload, and a mutable Failable
\* is pending with data undefined, also when the promise had settled
\* before the call; the reaction to a promise fulfilled with v leaves the
\* holder a success with payload v, the reaction to a promise rejected
\* with e leaves it a failure with payload e; and once an accepted
\* promise has settled, its reaction eventually runs and leaves the
\* holder out of its loading state.
C22_AcceptThenSettle ==
  /\ [](last.op = "Loadable.accept" =>
          /\ loadable.state = BeginLoading(last.before.state)
          /\ loadable.data = last.before.data
          /\ Loadable_isLoading(loadable)
          /\ last.result = This)
  /\ [](last.op = "MutFailable.accept" =>
          /\ mfailable = [state |-> "pending", data |-> Undefined]
          /\ last.result = This)
  /\ [](\A p \in Promises : ReactionRan(p) =>
          /\ promises[p].kind = "fulfilled" =>
                /\ Holder = [state |-> "success", data |-> promises[p].value]
                /\ HookNames = <<"didBecomeSuccess">>
          /\ promises[p].kind = "rejected" =>
                /\ Holder = [state |-> "failure", data |-> promises[p].value]
                /\ HookNames = <<"didBecomeFailure">>
          /\ promises[p].kind # "unsettled"
          /\ ~HolderIsLoading)
  /\ \A p \in Promises :
       (p \in outstanding /\ promises[p] # Unsettled) ~> ReactionRan(p)

C22_Witness ==
  /\ last.op = "Loadable.accept"
  /\ promises[last.promise].kind = "fulfilled"
  /\ last.before.state = "failure"
  /\ loadable = [state |-> "retrying", data |-> "e1"]

\* what the reaction to a settled promise leaves in the holder
Outcome(p) ==
  [state |-> IF promises[p].kind = "fulfilled" THEN "success" ELSE "failure",
   data |-> promises[p].value]

\* C23: accept cancels nothing.  The reaction to every accepted promise
\* runs, whatever other promises are outstanding and whatever the holder
\* has become meanwhile: it leaves the holder with the outcome of its
\* promise, runs the success or failure hook once with the payload and
\* leaves the other outstanding promises outstanding.  Of two promises in
\* flight together the one that settles first has its reaction run
\* first, so that the holder ends with the outcome of the one that
\* settles last.
C23_NoCancellation ==
  \A p \in Promises : ReactionRan(p) =>
    /\ p \in last.pending
    /\ outstanding = last.pending \ {p}
    /\ Holder = Outcome(p)
    /\ Len(calls) = 1
    /\ calls[1].fn = (IF promises[p].kind = "fulfilled" THEN "didBecomeSuccess" ELSE "didBecomeFailure")
    /\ calls[1].args = <<promises[p].value>>
    /\ \A q \in Promises : p \in promises[q].inFlight => q \notin last.pending

\* the second promise accepted settles first, the first one last
C23_Witness ==
  /\ last.op = "Loadable.settled"
  /\ last.promise = 1
  /\ 1 \in promises[2].inFlight
  /\ promises[2].kind = "fulfilled"
  /\ last.before = [state |-> "success", data |-> promises[2].value]
  /\ promises[1].kind = "rejected"
  /\ loadable = [state |-> "failure", data |-> "e1"]

\* the promises given to accept that have not settled
InFlight == {p \in outstanding : promises[p] = Unsettled}

\* C24: in every reachable state of a Loadable, while a promise given to
\* accept has not settled isLoading is true, so that the states success
\* and failure occur only when no accepted promise is in flight.
C24_LoadingWhileInFlight ==
  (subject = "Loadable" /\ InFlight # {}) =>
    /\ Loadable_isLoading(loadable)
    /\ loadable.state \notin {"success", "failure"}

\* the holder before the last call
HasValue(h) == h.state \in {"success", "reloading"}
HasError(h) == h.state \in {"failure", "retrying"}
\* what using the fallback d amounts to: a function is called once and
\* its result returned, a value is returned as it is
FallbackUsed(d) ==
  IF d.kind = "function"
  THEN calls = <<Call(d.value, <<>>)>> /\ last.result = RetVal(d.value, <<>>)
  ELSE calls = <<>> /\ last.result = Value(d.value)

\* C25: successOr(d) returns the stored value of a holder that has one
\* (a Failable in success, a Loadable in success or reloading) and
\* otherwise the fallback; failureOr(d) returns the stored error of a
\* holder that has one (failure or retrying) and otherwise the fallback;
\* a fallback that is a function is called exactly once when it is used
\* and not at all when the stored payload is returned; neither call
\* changes the state or the payload of the holder.
C25_FallbackOnlyWhenNeeded ==
  /\ last.op \in {"Loadable.successOr", "MutFailable.successOr"} =>
       /\ Holder = last.before
       /\ ~last.thrown
       /\ IF HasValue(last.before)
          THEN calls = <<>> /\ last.result = Value(last.before.data)
          ELSE FallbackUsed(last.arg)
  /\ last.op \in {"Loadable.failureOr", "MutFailable.failureOr"} =>
       /\ Holder = last.before
       /\ ~last.thrown
       /\ IF HasError(last.before)
          THEN calls = <<>> /\ last.result = Value(last.before.data)
          ELSE FallbackUsed(last.arg)

C25_Witness ==
  /\ last.op = "Loadable.successOr"
  /\ last.before.state = "reloading"
  /\ last.arg.kind = "function"
  /\ calls = <<>>
  /\ last.result = Value("x1")

\* C29: a newly constructed mutable Failable is pending with no payload,
\* and after every success(x), failure(e) or pending() call, whatever
\* calls came before, it is a success with payload x, a failure with
\* payload e, or pending with no payload.
C29_LastCallDecides ==
  /\ subject = "MutFailable" => mfailable = [state |-> "pending", data |-> Undefined]
  /\ [](last.op = "MutFailable.success" => mfailable = [state |-> "success", data |-> last.arg])
  /\ [](last.op = "MutFailable.failure" => mfailable = [state |-> "failure", data |-> last.arg])
  /\ [](last.op = "MutFailable.pending" => mfailable = [state |-> "pending", data |-> Undefined])

C29_Witness ==
  /\ last.op = "MutFailable.success"
  /\ last.before = [state |-> "success", data |-> "x1"]
  /\ mfailable = [state |-> "success", data |-> "x2"]

(***************************************************************************)
(* Conversions, guards and Try                                             *)
(***************************************************************************)
\* the value a call returned
Returned == last.result.args[1]

\* C26: toResult(f), Result.from(f) and toFailable(f) call f exactly
\* once and throw nothing; when f returns v the result is a success with
\* payload v, when f throws e it is a failure whose payload is e itself;
\* the result is never pending.
C26_ConversionCatches ==
  last.op \in {"toFailable", "Result.from", "toResult"} =>
    /\ calls = <<Call(last.value.id, <<>>)>>
    /\ ~last.thrown
    /\ last.value.does = "return" =>
         /\ isSuccess(Returned) /\ ~isFailure(Returned)
         /\ Returned.data = last.value.data
    /\ last.value.does = "throw" =>
         /\ isFailure(Returned) /\ ~isSuccess(Returned)
         /\ Returned.data = last.value.data
    /\ ~isPending(Returned)

C26_Witness ==
  /\ last.op = "toResult"
  /\ last.value.does = "throw"
  /\ isFailure(Returned)
  /\ Returned.data = "e1"
  /\ Len(calls) = 1

\* the predicates that hold of a value
TruePredicates(v) ==
  {q \in {"isSuccess", "isFailure", "isPending"} :
     \/ q = "isSuccess" /\ isSuccess(v)
     \/ q = "isFailure" /\ isFailure(v)
     \/ q = "isPending" /\ isPending(v)}

\* C27: of a value made by success(x), for any x, undefined and null
\* included, only isSuccess holds; of one made by failure(e) only
\* isFailure; of the constant pending only isPending.
C27_OnePredicate ==
  /\ last.op = "success" => TruePredicates(Returned) = {"isSuccess"}
  /\ last.op = "failure" => TruePredicates(Returned) = {"isFailure"}
  /\ last.op = "pending" => TruePredicates(Returned) = {"isPending"}

C27_Witness ==
  /\ last.op = "success"
  /\ last.f = Null
  /\ Returned.data = Null
  /\ isSuccess(Returned)

\* C28: isFailable(x) and Failable.is(x) return a boolean and throw
\* nothing for every x, null, undefined and primitive values included,
\* and return true exactly when x has a property `error` that is true,
\* false or null.
C28_GuardIsTotal ==
  last.op \in {"isFailable", "Failable.is"} =>
    /\ ~last.thrown
    /\ last.result \in {Value("true"), Value("false")}
    /\ last.result = Value("true") <=>
         (IsObject(last.value) /\ last.value.error \in {"true", "false", Null})

\* the value a Try wraps when it is given f
Wrapped(f) ==
  IF f.type # "function" THEN f
  ELSE IF f.does = "throw" THEN AsValue(failure(f.data)) ELSE AsValue(success(f.data))
PassesGuard(x) == IsObject(x) /\ x.error \in {"true", "false", Null}
ThunkCalls(f) == IF f.type = "function" THEN <<Call(f.id, <<>>)>> ELSE <<>>
\* the payload of a success or a failure; a pending value has none
PayloadOf(w) == IF isPending(w) THEN Undefined ELSE w.data

Constructed == pc = "returned" /\ last.op \in {"success", "failure", "reloading", "retrying"}

\* C31: a value built by success or failure, and the constant pending,
\* keeps its tag and its payload through every step: through the
\* predicates, isFailable, when, Failable.when, dispatch and listener
\* registration, and through an assignment a client attempts.  Reading
\* pending yields the one shared constant and constructs nothing; success
\* and failure yield an object that did not exist before.
C31_ValuesImmutable ==
  [][/\ \A ref \in DOMAIN heap : ref \in DOMAIN heap' /\ heap'[ref].value = heap[ref].value
     /\ (pc' = "returned" /\ last'.op = "pending") =>
          (last'.result = Ref(PendingRef) /\ heap' = heap /\ heap[PendingRef].value = pending)
     /\ (pc = "ready" /\ Constructed') =>
          (last'.result.args[1] \notin DOMAIN heap /\ last'.result.args[1] \in DOMAIN heap')]_vars

C31_Witness ==
  /\ last.op = "assign"
  /\ last.thrown
  /\ last.arg = <<"data", "x2">>
  /\ heap[last.ref].value = success("x1")
  /\ Len(heap) = 3
  /\ Total(allHandlers, DOMAIN allHandlers) > 0

(***************************************************************************)
(* Hooks and payloads of the holders                                       *)
(***************************************************************************)
\* the call that has just ended was success(d), made by the client or by
\* the reaction to a fulfilled promise
SuccessCall ==
  \/ last.op \in {"Loadable.success", "MutFailable.success"}
  \/ last.op \in {"Loadable.settled", "MutFailable.settled"} /\ promises[last.promise].kind = "fulfilled"
FailureCall ==
  \/ last.op \in {"Loadable.failure", "MutFailable.failure"}
  \/ last.op \in {"Loadable.settled", "MutFailable.settled"} /\ promises[last.promise].kind = "rejected"

\* C32: every success(d) on a Loadable or a mutable Failable, whatever the
\* holder was before, leaves it a success with payload d and invokes
\* didBecomeSuccess(d) once and no other hook, and the hook finds the
\* holder already in the new state with the new payload; failure(e) does
\* the same with didBecomeFailure(e).
C32_HookSeesNewState ==
  /\ SuccessCall =>
       /\ Holder = [state |-> "success", data |-> last.arg]
       /\ calls = <<HookCall("didBecomeSuccess", <<last.arg>>, [state |-> "success", data |-> last.arg])>>
  /\ FailureCall =>
       /\ Holder = [state |-> "failure", data |-> last.arg]
       /\ calls = <<HookCall("didBecomeFailure", <<last.arg>>, [state |-> "failure", data |-> last.arg])>>

C32_Witness ==
  /\ last.op = "Loadable.success"
  /\ last.before = [state |-> "success", data |-> "x1"]
  /\ last.arg = "x2"
  /\ calls[1].seen = [state |-> "success", data |-> "x2"]

\* what a state of a Loadable says is available
Availability(st) ==
  CASE st \in {"empty", "pending"} -> "none"
    [] st \in {"success", "reloading"} -> "value"
    [] st \in {"failure", "retrying"} -> "error"

\* the step ends a success(d) call or a reaction to a fulfilled promise
SuccessStep ==
  /\ pc = "ready"
  /\ pc' = "returned"
  /\ \/ last'.op = "Loadable.success"
     \/ last'.op = "Loadable.settled" /\ promises[last'.promise].kind = "fulfilled"
FailureStep ==
  /\ pc = "ready"
  /\ pc' = "returned"
  /\ \/ last'.op = "Loadable.failure"
     \/ last'.op = "Loadable.settled" /\ promises[last'.promise].kind = "rejected"

\* C33: in every reachable state of a Loadable the payload agrees with
\* the availability of the state.  In empty and pending it is undefined.
\* A success call (the client's or a reaction's) makes a value available
\* and the payload its argument; a failure call makes an error available
\* and the payload its argument; every other step (loading, pending,
\* accept, a promise settling, match) keeps both the payload and what is
\* available, so that the payload of success and reloading is the
\* argument of the most recent success call and the payload of failure
\* and retrying the argument of the most recent failure call.
C33_PayloadAgrees ==
  /\ [](Availability(loadable.state) = "none" => loadable.data = Undefined)
  /\ [](Availability(loadable.state) = "value" => loadable.data \in Data)
  /\ [](Availability(loadable.state) = "error" => loadable.data \in Errors)
  /\ [][/\ SuccessStep => (Availability(loadable'.state) = "value" /\ loadable'.data = last'.arg)
        /\ FailureStep => (Availability(loadable'.state) = "error" /\ loadable'.data = last'.arg)
        /\ ~(SuccessStep \/ FailureStep) =>
             /\ Availability(loadable'.state) = Availability(loadable.state)
             /\ loadable'.data = loadable.data]_vars

C33_Witness ==
  /\ last.op = "Loadable.accept"
  /\ last.before = [state |-> "failure", data |-> "e1"]
  /\ loadable = [state |-> "retrying", data |-> "e1"]
  /\ outstanding # {}

(***************************************************************************)
(* Listeners that change the registry during a dispatch                    *)
(***************************************************************************)
\* a dispatch is under way or has just ended
InDispatch == pc = "dispatching" \/ (pc = "returned" /\ last.op = "dispatch")
\* the state dispatched, its data, and its list when the dispatch began
Dispatching == IF pc = "dispatching" THEN iter.key ELSE last.state
DispatchData == IF pc = "dispatching" THEN iter.data ELSE last.data
Began == IF pc = "dispatching" THEN iter.began[iter.key] ELSE last.before[last.state]
\* the dispatch has returned normally
Ended == pc = "returned" /\ last.op = "dispatch" /\ ~last.thrown
IsPrefix(a, b) == Len(a) <= Len(b) /\ a = SubSeq(b, 1, Len(a))

\* C34: when a dispatch of a state has returned and one of the callbacks
\* it invoked removed itself from that state's list, every other callback
\* of the list as it was when the dispatch began has been invoked as
\* often as it occurred in that list.  (The list holds no callback that
\* adds listeners or raises.)
C34_RemovalSparesTheOthers ==
  (/\ Ended
   /\ Dispatching = S_a
   /\ Invocations(calls, "hrem") > 0
   /\ Range(Began) \subseteq {"hrem", "h1"}) =>
    Invocations(calls, "h1") = Count(Began, "h1")

\* C35: a dispatch invokes the callbacks of the list as it was when the
\* dispatch began, in order, and no others, so that it makes at most as
\* many invocations as that list had entries, also when a callback it
\* invokes adds a callback to the same list or registers itself again.
\* (The list holds no callback that removes listeners.)
C35_AdditionsWait ==
  (InDispatch /\ "hrem" \notin Range(Began)) =>
    /\ IsPrefix(calls, ListenerCalls(Began, DispatchData))
    /\ Ended => calls = ListenerCalls(Began, DispatchData)

(***************************************************************************)
(* The frame of removeListener                                             *)
(***************************************************************************)
\* the list without the entries that are f
Without(list, f) == SelectSeq(list, LAMBDA x : x # f)
\* a can be had from b by deleting entries of b
RECURSIVE Embeds(_, _)
Embeds(a, b) ==
  IF a = <<>> THEN TRUE
  ELSE IF b = <<>> THEN FALSE
  ELSE IF Head(a) = Head(b) THEN Embeds(Tail(a), Tail(b))
  ELSE Embeds(a, Tail(b))

\* C36: removeListener(state, cb) on a valid state deletes entries of
\* state's list that are cb and nothing else: the entries that are not cb
\* are all still there, in the order they had, what is left of the list
\* is in the order it had, and the list of every other state is as it
\* was.
C36_RemoveTouchesOnlyCb ==
  (/\ last.op = "removeListener"
   /\ Valid(last.state)
   /\ last.f # Undefined) =>
    /\ ~last.thrown
    /\ DOMAIN allHandlers = DOMAIN last.before
    /\ Without(allHandlers[last.state], last.f) = Without(last.before[last.state], last.f)
    /\ Embeds(allHandlers[last.state], last.before[last.state])
    /\ \A k \in DOMAIN allHandlers \ {last.state} : allHandlers[k] = last.before[k]

C36_Witness ==
  /\ last.op = "removeListener"
  /\ last.state = S_a
  /\ last.f = "h1"
  /\ last.before[S_a] = <<"h1", "h2">>
  /\ last.before[S_b] = <<"h1">>
  /\ allHandlers[S_a] = <<"h2">>
  /\ allHandlers[S_b] = <<"h1">>

(***************************************************************************)
(* A listener that raises during Failable.when                             *)
(***************************************************************************)
\* what the listeners of the state of f receive
Observed(f) == IF isPending(f) THEN Undefined ELSE f.data

\* C37: when a listener registered for the state of f raises during
\* Failable.when(f, options), the call throws that error, the listeners
\* before the raising one have each been invoked once and none after it,
\* no handler of options has been invoked, and the registry is as it was.
C37_RaiseAbortsFailableWhen ==
  (last.op = "Failable.when" /\ ~NoRaiser(last.before[StateOf(last.value)])) =>
    LET list == last.before[StateOf(last.value)]
    IN /\ last.thrown
       /\ last.error = "Error"
       /\ calls = ListenerCalls(SubSeq(list, 1, FirstRaiser(list)), Observed(last.value))
       /\ \A k \in Callers : Invocations(calls, k) = 0
       /\ allHandlers = last.before

C37_Witness ==
  /\ last.op = "Failable.when"
  /\ last.value = success("x1")
  /\ last.before[S_success] = <<"h1", "hx", "h2">>
  /\ calls = <<Call("h1", <<"x1">>), Call("hx", <<"x1">>)>>
  /\ last.thrown
  /\ last.error = "Error"

(***************************************************************************)
(* The predicates of the frozen five-tag values                            *)
(***************************************************************************)
\* the predicates that hold of the value v
TrueOfFive(v) ==
  {q \in {"isSuccess", "isFailure", "isPending", "isReloading", "isRetrying"} :
     \/ q = "isSuccess" /\ isSuccess(v)
     \/ q = "isFailure" /\ isFailure(v)
     \/ q = "isPending" /\ isPending(v)
     \/ q = "isReloading" /\ isReloading(v)
     \/ q = "isRetrying" /\ isRetrying(v)}

\* C38: of every value made by success, failure, reloading or retrying,
\* and of the constant pending, exactly one of isSuccess, isFailure,
\* isPending, isReloading and isRetrying holds; and `when` and
\* Failable.when, given a reloading or a retrying value, do not invoke the
\* pending handler.
C38_FivePredicatesPartition ==
  /\ \A ref \in DOMAIN heap : Cardinality(TrueOfFive(heap[ref].value)) = 1
  /\ (/\ subject = "Values"
      /\ last.op \in {"when", "Failable.when"}
      /\ isReloading(heap[last.ref].value) \/ isRetrying(heap[last.ref].value)) =>
       \A i \in DOMAIN calls : calls[i] # Call(last.options.pending.id, <<>>)

=========================================================================
